---- MODULE Spec2Model ----
(***************************************************************************)
(* A model of the contrastive-pretraining extension of llm-foundry:        *)
(*   - StreamingPairsDataset (data/contrastive_pairs/dataloader.py),       *)
(*   - ConcatenatedSequenceCollatorWrapper (same file),                     *)
(*   - dist_gather_tensor, Artanh and ComposerMPTContrastiveLM              *)
(*     (models/mpt_embed/modeling_mpt_embed.py).                            *)
(*                                                                         *)
(* Each component has its own specification over the shared variables:     *)
(*   SpecData    the dataset: __init__ and __getitem__                     *)
(*   SpecCollate the collator wrapper: __init__ and __call__               *)
(*   SpecPool    masked mean pooling of one batch of hidden states         *)
(*   SpecGather  dist_gather_tensor called by every rank                   *)
(*   SpecModel   forward, loss and _compute_scores on every rank           *)
(*                                                                         *)
(* Conventions.  An Optional value is a sequence of length 0 (None) or 1.  *)
(* A Python str is a sequence of one-character strings; bytes likewise.    *)
(* A tensor is a nested sequence (dimension 0 outermost).                  *)
(***************************************************************************)
EXTENDS Integers, Sequences, FiniteSets, TLC

VARIABLES
  \* ---- tokenizer and StreamingPairsDataset
  tokenizer,        \* [pad_token, eos_token]: Optional str each
  ds_state,         \* "new" | "built" | the exception __init__ raised
  append_eos_token, \* self.append_eos_token (Optional bool)
  append_token,     \* self.append_token (Optional str: eos_token may be None)
  prepend_query,    \* self.prepend_query
  prepend_passage,  \* self.prepend_passage
  sample,           \* the sample super().__getitem__(idx) returned last
  text_samples,     \* the list __getitem__ built last
  getitem_result,   \* "none" | "tokens" | the exception __getitem__ raised
  \* ---- ConcatenatedSequenceCollatorWrapper
  col_state,        \* "new" | "built" | "ValueError"
  split_token_id,   \* self.split_token_id (Optional until __init__ sets it)
  bos_mode,         \* self.bos_mode
  col_batch,        \* the batch of the last __call__: [ndim, input_ids, sequence_id]
  call_result,      \* "none" | "returned" | the exception __call__ raised
  \* ---- masked mean pooling of one tensor of hidden states
  p_hidden,         \* hidden states, shape (rows, seq, hidden)
  p_mask,           \* attention_mask, shape (rows, seq)
  p_out,            \* Optional: the pooled rows
  \* ---- dist_gather_tensor, one call on every rank
  g_world,          \* dist.get_world_size()
  g_arg,            \* rank -> the Optional tensor t the rank passes
  g_pc,             \* rank -> "start" | "in_all_gather" | "returned"
  g_buf,            \* rank -> Optional tensor: what all_gather holds of the rank
  g_out,            \* rank -> Optional tensor: what the call returned
  \* ---- ComposerMPTContrastiveLM, one replica on every rank
  m_world,          \* dist.get_world_size()
  m_cfg,            \* the model configuration (om_model_config)
  m_state,          \* "new" | "built" | the exception __init__ raised
  m_batch,          \* rank -> the batch (key -> tensor) of the current step
  m_pc,             \* rank -> "batch" | "forwarded" | "gathering" | "done"
  m_dims,           \* rank -> Optional <<dim1, dim2, dim3>> forward unpacked
  m_calls,          \* rank -> the backbone invocations of forward, in order
  m_outputs,        \* rank -> Optional hidden_states of the backbone's output
  m_method,         \* Optional: the method the ranks run after forward
  m_local,          \* rank -> Optional [q, p]: the pooled rows handed to all_gather
  m_result,         \* rank -> Optional: what the method returned or raised
  \* ---- build_pairs_dataloader
  dl_state,        \* "new" | "returned" | the exception it raised
  dl_token_counting_func, \* Optional: the pad_token_id the DataSpec counts with
  \* ---- the callable of get_tokens_per_batch_func
  tc_state,        \* "new" | "built": whether get_tokens_per_batch_func has returned
  tc_pad_token_id, \* pad_token_id the callable closes over
  tc_decoder_only, \* decoder_only the callable closes over
  tc_batch,        \* Optional: the batch of the last call
  tc_result,       \* Optional [err, count]: what the last call did
  \* ---- project / _project, reals in units of 1e-8
  pj_x,            \* the vector of the last project call
  pj_sqrt_c,       \* <<num, den>>: the square root of its curvature c
  pj_out,          \* Optional: what the call returned
  pj_pair,         \* Optional: the projections and denominator of poincare_distance
  \* ---- Artanh (torch.autograd.Function), reals in units of 1e-5
  artanh_ctx,       \* Optional: the tensor forward saved for backward
  artanh_res,       \* Optional: what forward returned
  artanh_grad       \* Optional: what backward returned

dsVars == <<tokenizer, ds_state, append_eos_token, append_token, prepend_query,
            prepend_passage, sample, text_samples, getitem_result>>

colVars == <<col_state, split_token_id, bos_mode, col_batch, call_result>>

poolVars == <<p_hidden, p_mask, p_out>>

gatherVars == <<g_world, g_arg, g_pc, g_buf, g_out>>

modelVars == <<m_world, m_cfg, m_state, m_batch, m_pc, m_dims, m_calls,
               m_outputs, m_method, m_local, m_result>>

dlVars == <<dl_state, dl_token_counting_func>>

countVars == <<tc_state, tc_pad_token_id, tc_decoder_only, tc_batch, tc_result>>

projVars == <<pj_x, pj_sqrt_c, pj_out, pj_pair>>

artanhVars == <<artanh_ctx, artanh_res, artanh_grad>>

vars == <<dsVars, colVars, poolVars, gatherVars, modelVars, artanhVars, countVars,
         projVars,
         dlVars>>

notData == <<colVars, poolVars, gatherVars, modelVars, artanhVars, countVars,
         projVars>>

notCollate == <<dsVars, poolVars, gatherVars, modelVars, artanhVars, countVars,
         projVars,
         dlVars>>

notPool == <<dsVars, colVars, gatherVars, modelVars, artanhVars, countVars,
         projVars,
         dlVars>>

notGather == <<dsVars, colVars, poolVars, modelVars, artanhVars, countVars,
         projVars,
         dlVars>>

\* the model's actions leave these alone (Artanh is listed per action)
notModel == <<dsVars, colVars, poolVars, gatherVars, countVars, projVars,
             dlVars>>

----------------------------------------------------------------------------
\* Optional values

None == <<>>

Some(x) == <<x>>

IsNone(o) == Len(o) = 0

Get(o) == o[1]

----------------------------------------------------------------------------
\* Python strings

\* str.startswith
StartsWith(s, prefix) ==
  /\ Len(s) >= Len(prefix)
  /\ SubSeq(s, 1, Len(prefix)) = prefix

\* what '{}'.format(x) renders for an Optional str: None renders as 'None'
FormatStr(o) == IF IsNone(o) THEN <<"N", "o", "n", "e">> ELSE Get(o)

\* '{}{}{}'.format(a, b, c) with a, b str and c an Optional str
Format3(a, b, c) == a \o b \o FormatStr(c)

----------------------------------------------------------------------------
\* Bounds of the dataset model

\* most columns a sample has
MaxColumns == 3

\* most negative passages pickled into one sample
MaxNegatives == 2

\* the texts a text column may hold ('' is falsy)
Texts == {<<>>, <<"u">>}

\* the texts a pickled negative passage may be
NegTexts == {<<"u">>, <<"v">>}

\* the tokenizers: [pad_token, eos_token]
Tokenizers ==
  { [pad_token |-> None,          eos_token |-> None],
    [pad_token |-> None,          eos_token |-> Some(<<"E">>)],
    [pad_token |-> Some(<<"P">>), eos_token |-> None],
    [pad_token |-> Some(<<"P">>), eos_token |-> Some(<<"E">>)] }

\* the values the configuration may give prepend_query / prepend_passage
\* (None: the key is absent and the default '' applies)
QueryPrefixes == {None, Some(<<"q">>)}

PassagePrefixes == {None, Some(<<"p">>)}

----------------------------------------------------------------------------
\* Column names and samples

COL_TEXT_A == <<"t", "e", "x", "t", "_", "a">>

COL_TEXT_B == <<"t", "e", "x", "t", "_", "b">>

\* a column whose name merely starts with text_a
COL_TEXT_A_ID == COL_TEXT_A \o <<"_", "i", "d">>

COL_QUERY_TEXT == <<"q", "u", "e", "r", "y", "_", "t", "e", "x", "t">>

COL_POSITIVE_PASSAGE ==
  <<"p", "o", "s", "i", "t", "i", "v", "e", "_", "p", "a", "s", "s", "a", "g", "e">>

COL_NEGATIVE_PASSAGES ==
  <<"n", "e", "g", "a", "t", "i", "v", "e", "_", "p", "a", "s", "s", "a", "g", "e", "s">>

ColumnNames == {COL_TEXT_A, COL_TEXT_B, COL_TEXT_A_ID,
                COL_QUERY_TEXT, COL_POSITIVE_PASSAGE, COL_NEGATIVE_PASSAGES}

RECURSIVE ConcatAll(_)
\* ''.join of a sequence of strings
ConcatAll(ss) ==
  IF Len(ss) = 0 THEN <<>> ELSE Head(ss) \o ConcatAll(Tail(ss))

\* pickle.dumps of a list of str: a framed byte string, never empty
PickleDumps(ps) ==
  <<"[">> \o ConcatAll([i \in 1..Len(ps) |-> <<"'">> \o ps[i] \o <<"'">>])
          \o <<"]">>

RECURSIVE UnpickleFrom(_, _, _, _, _)
\* the parser behind pickle.loads: i the read position, inItem whether a
\* passage is open, cur the passage read so far, acc the passages closed
UnpickleFrom(b, i, inItem, cur, acc) ==
  IF i > Len(b) THEN acc
  ELSE IF inItem
       THEN IF b[i] = "'"
            THEN UnpickleFrom(b, i + 1, FALSE, <<>>, Append(acc, cur))
            ELSE UnpickleFrom(b, i + 1, TRUE, Append(cur, b[i]), acc)
       ELSE IF b[i] = "'"
            THEN UnpickleFrom(b, i + 1, TRUE, <<>>, acc)
            ELSE UnpickleFrom(b, i + 1, FALSE, cur, acc)

\* pickle.loads(sample["negative_passages"])
PickleLoads(b) == UnpickleFrom(b, 1, FALSE, <<>>, <<>>)

RECURSIVE SeqsUpTo(_, _)
\* the sequences over S of length at most n
SeqsUpTo(S, n) ==
  IF n = 0 THEN {<<>>}
  ELSE LET shorter == SeqsUpTo(S, n - 1)
       IN  shorter \cup {Append(q, x) : q \in shorter, x \in S}

\* the byte strings a negative_passages column may hold (b'' is falsy)
NegativeBytes == {<<>>} \cup {PickleDumps(ps) : ps \in SeqsUpTo(NegTexts, MaxNegatives)}

ValuesOf(name) == IF name = COL_NEGATIVE_PASSAGES THEN NegativeBytes ELSE Texts

\* a sample is an ordered dict: a sequence of [name, value] with distinct names
NameSeqs ==
  {ns \in SeqsUpTo(ColumnNames, MaxColumns) :
     \A i, j \in 1..Len(ns) : i # j => ns[i] # ns[j]}

RECURSIVE SamplesOver(_)
\* the samples whose columns are ns, in that order
SamplesOver(ns) ==
  IF Len(ns) = 0 THEN {<<>>}
  ELSE {<<[name |-> Head(ns), value |-> v]>> \o rest :
          v \in ValuesOf(Head(ns)), rest \in SamplesOver(Tail(ns))}

Samples == UNION {SamplesOver(ns) : ns \in NameSeqs}

HasKey(smp, name) == \E i \in 1..Len(smp) : smp[i].name = name

\* sample[name] for a key the sample has
Lookup(smp, name) == smp[CHOOSE i \in 1..Len(smp) : smp[i].name = name].value

\* truth value of a str or bytes
Truthy(v) == Len(v) > 0

----------------------------------------------------------------------------
\* StreamingPairsDataset.__init__

\* the keyword arguments and paths __init__ may be given
InitArgs ==
  [ group_method     : {None, Some(<<"c">>)},
    append_eos_token : {None, Some(TRUE), Some(FALSE)},
    prepend_query    : QueryPrefixes,
    prepend_passage  : PassagePrefixes,
    extra_kwargs     : {0, 1},            \* how many other keyword arguments
    local            : {None, Some(<<"l">>)},
    remote           : {None, Some(<<"l">>), Some(<<"r">>)},
    isdir            : BOOLEAN,           \* os.path.isdir(local)
    has_split        : BOOLEAN ]          \* split in os.listdir(local)

\* kwargs.pop(key, default)
PopOr(o, default) == IF IsNone(o) THEN default ELSE Get(o)

\* an __init__ that appends the eos token whatever append_eos_token says
AppendTokenAlwaysEos(flag, tok) == tok.eos_token

\* self.append_token as lines 122-125 set it from self.append_eos_token
AppendTokenOf(flag, tok) ==
  IF ~IsNone(flag) /\ Get(flag)
  THEN tok.eos_token
  ELSE Some(<<>>)

\* a local-directory check that looks only when remote is None
LocalSplitMissingRemoteNone(a) ==
  /\ ~IsNone(a.local)
  /\ IsNone(a.remote)
  /\ a.isdir
  /\ ~a.has_split

\* the local-directory check of lines 134-140 raises
LocalSplitMissing(a) ==
  /\ ~IsNone(a.local)
  /\ (IsNone(a.remote) \/ a.local = a.remote)
  /\ a.isdir
  /\ ~a.has_split

\* a fallback that installs the eos token whatever the tokenizer had
PadFallbackAlwaysEos(tok) == [tok EXCEPT !.pad_token = tok.eos_token]

\* the tokenizer after the pad-token fallback of lines 148-149
PadFallback(tok) ==
  IF IsNone(tok.pad_token)
  THEN [tok EXCEPT !.pad_token = tok.eos_token]
  ELSE tok

DatasetInit(a) ==
  /\ ds_state = "new"
  /\ IF ~IsNone(a.group_method)
     THEN /\ ds_state' = "NotImplementedError"
          /\ UNCHANGED <<append_eos_token, append_token, prepend_query,
                         prepend_passage, tokenizer>>
     ELSE /\ append_eos_token' = a.append_eos_token
          /\ append_token' = AppendTokenOf(a.append_eos_token, tokenizer)
          /\ prepend_query' = PopOr(a.prepend_query, <<>>)
          /\ prepend_passage' = PopOr(a.prepend_passage, <<>>)
          /\ IF a.extra_kwargs > 0 \/ LocalSplitMissing(a)
             THEN /\ ds_state' = "ValueError"
                  /\ UNCHANGED tokenizer
             ELSE /\ tokenizer' = PadFallback(tokenizer)
                  /\ ds_state' = "built"
  /\ UNCHANGED <<sample, text_samples, getitem_result, notData>>

----------------------------------------------------------------------------
\* StreamingPairsDataset.__getitem__

RECURSIVE TextColumns(_, _, _, _, _, _)
\* the loop of lines 212-216 from item i on, acc the list so far
TextColumns(smp, i, pq, pp, at, acc) ==
  IF i > Len(smp) THEN acc
  ELSE LET a1 == IF StartsWith(smp[i].name, COL_TEXT_A)
                 THEN Append(acc, Format3(pq, smp[i].value, at))
                 ELSE acc
           a2 == IF StartsWith(smp[i].name, COL_TEXT_B)
                 THEN Append(a1, Format3(pp, smp[i].value, at))
                 ELSE a1
       IN  TextColumns(smp, i + 1, pq, pp, at, a2)

\* a __getitem__ that appends the positive passage after the negatives
HardNegativeTextsPositiveLast(smp, pq, pp, at) ==
  LET negs == PickleLoads(Lookup(smp, COL_NEGATIVE_PASSAGES))
  IN  <<Format3(pq, Lookup(smp, COL_QUERY_TEXT), at)>>
      \o [i \in 1..Len(negs) |-> Format3(pp, negs[i], at)]
      \o <<Format3(pp, Lookup(smp, COL_POSITIVE_PASSAGE), at)>>

\* the texts lines 224-235 append: query, positive, then every negative
HardNegativeTexts(smp, pq, pp, at) ==
  LET negs == PickleLoads(Lookup(smp, COL_NEGATIVE_PASSAGES))
  IN  <<Format3(pq, Lookup(smp, COL_QUERY_TEXT), at),
        Format3(pp, Lookup(smp, COL_POSITIVE_PASSAGE), at)>>
      \o [i \in 1..Len(negs) |-> Format3(pp, negs[i], at)]

\* lines 208-235: [err, texts]; the condition of lines 219-222 reads its
\* keys left to right and stops at the first falsy value
BuildTextSamples(smp, pq, pp, at) ==
  LET ts == TextColumns(smp, 1, pq, pp, at, <<>>)
      ok(t) == [err |-> "none", texts |-> t]
      keyError == [err |-> "KeyError", texts |-> ts]
  IN  IF Len(ts) # 0 THEN ok(ts)
      ELSE IF ~HasKey(smp, COL_QUERY_TEXT) THEN keyError
      ELSE IF ~Truthy(Lookup(smp, COL_QUERY_TEXT)) THEN ok(ts)
      ELSE IF ~HasKey(smp, COL_POSITIVE_PASSAGE) THEN keyError
      ELSE IF ~Truthy(Lookup(smp, COL_POSITIVE_PASSAGE)) THEN ok(ts)
      ELSE IF ~HasKey(smp, COL_NEGATIVE_PASSAGES) THEN keyError
      ELSE IF ~Truthy(Lookup(smp, COL_NEGATIVE_PASSAGES)) THEN ok(ts)
      ELSE ok(HardNegativeTexts(smp, pq, pp, at))

\* _tokenize raises when the tokenizer has no pad token
TokenizeRaises(tok) == IsNone(tok.pad_token)

\* one call per behaviour: __getitem__ leaves the dataset as it found it, so
\* a later call starts from the same state
GetItem(smp) ==
  /\ ds_state = "built"
  /\ getitem_result = "none"
  /\ LET r == BuildTextSamples(smp, prepend_query, prepend_passage, append_token)
     IN  /\ sample' = smp
         /\ text_samples' = r.texts
         /\ getitem_result' =
              IF r.err # "none" THEN r.err
              ELSE IF TokenizeRaises(tokenizer) THEN "RuntimeError"
              ELSE "tokens"
  /\ UNCHANGED <<tokenizer, ds_state, append_eos_token, append_token,
                 prepend_query, prepend_passage, dlVars, notData>>

\* the samples a call may be made for: none unless GetItem's guard holds
CallableSamples ==
  IF ds_state = "built" /\ getitem_result = "none" THEN Samples ELSE {}

\* the arguments a construction may be given: none once __init__ has run
CallableInitArgs == IF ds_state = "new" THEN InitArgs ELSE {}

\* tokenizer.pad_token_id: the token stands for its id, and there is an id
\* exactly when there is a pad token
PadTokenId(tok) == tok.pad_token

\* cfg.dataset.pop('eos_token_id', None) / pop('bos_token_id', None)
DataloaderTokenIds == {None, Some(1)}

\* build_pairs_dataloader (lines 302-379): the dataset is constructed at
\* line 340 (its group_method check repeats the one of line 311), the
\* collator wrapper at line 354 when an eos or bos id is configured, the
\* token counting function at lines 374-377
BuildPairsDataloader(a, eos_token_id, bos_token_id) ==
  /\ dl_state = "new"
  /\ DatasetInit(a)
  /\ IF ds_state' # "built"
     THEN /\ dl_state' = ds_state'
          /\ UNCHANGED dl_token_counting_func
     ELSE IF ~IsNone(eos_token_id) /\ ~IsNone(bos_token_id)
     THEN /\ dl_state' = "ValueError"
          /\ UNCHANGED dl_token_counting_func
     ELSE /\ dl_state' = "returned"
          /\ dl_token_counting_func' = PadTokenId(tokenizer')

NextData ==
  \/ \E a \in CallableInitArgs : \E eos_token_id, bos_token_id \in DataloaderTokenIds :
       BuildPairsDataloader(a, eos_token_id, bos_token_id)
  \/ \E smp \in CallableSamples : GetItem(smp)

----------------------------------------------------------------------------
\* Tensors (nested sequences, dimension 0 outermost)

RECURSIVE SumSeq(_)
\* the sum of a sequence of integers
SumSeq(q) == IF Len(q) = 0 THEN 0 ELSE Head(q) + SumSeq(Tail(q))

\* the tensors of shape (n, m) with entries in S
Tensors2D(n, m, S) == [1..n -> [1..m -> S]]

\* the tensors of shape (n, m, l) with entries in S
Tensors3D(n, m, l, S) == [1..n -> [1..m -> [1..l -> S]]]

\* torch.eq(t, x) as 0/1, for a tensor of ndim dimensions
TorchEq(t, x, ndim) ==
  IF ndim = 2
  THEN [i \in 1..Len(t) |-> [j \in 1..Len(t[i]) |->
          IF t[i][j] = x THEN 1 ELSE 0]]
  ELSE [i \in 1..Len(t) |-> [j \in 1..Len(t[i]) |-> [k \in 1..Len(t[i][j]) |->
          IF t[i][j][k] = x THEN 1 ELSE 0]]]

\* torch.cumsum(t, dim=1): the running sum runs over the second index,
\* whatever follows it
CumSumDim1(t, ndim) ==
  IF ndim = 2
  THEN [i \in 1..Len(t) |-> [j \in 1..Len(t[i]) |->
          SumSeq(SubSeq(t[i], 1, j))]]
  ELSE [i \in 1..Len(t) |-> [j \in 1..Len(t[i]) |-> [k \in 1..Len(t[i][j]) |->
          SumSeq([jj \in 1..j |-> t[i][jj][k]])]]]

----------------------------------------------------------------------------
\* ConcatenatedSequenceCollatorWrapper

\* largest token id of the collator's batches
MaxTokenId == 1

\* longest sequence of the collator's batches
MaxSeqLen == 2

\* most rows of a two-dimensional batch
MaxRows == 2

TokenIds == 0..MaxTokenId

\* the batches the base collator returns: (rows, seq) token batches, and
\* the (samples, texts, seq) batches the pairs dataset's samples collate to
Shapes2D == {<<n, l>> : n \in 1..MaxRows, l \in 1..MaxSeqLen}

Shapes3D == {<<1, 2, l>> : l \in 1..MaxSeqLen}

\* an __init__ that lets both token ids through and splits on eos
CollatorInitEosWins(eos_token_id, bos_token_id) ==
  /\ col_state = "new"
  /\ IF IsNone(eos_token_id) /\ IsNone(bos_token_id)
     THEN /\ col_state' = "ValueError"
          /\ UNCHANGED <<split_token_id, bos_mode>>
     ELSE /\ col_state' = "built"
          /\ split_token_id' = IF IsNone(eos_token_id) THEN bos_token_id
                                                       ELSE eos_token_id
          /\ bos_mode' = IsNone(eos_token_id)
  /\ UNCHANGED <<col_batch, call_result, notCollate>>

\* lines 264-281
CollatorInit(eos_token_id, bos_token_id) ==
  /\ col_state = "new"
  /\ IF IsNone(eos_token_id) = IsNone(bos_token_id)
     THEN /\ col_state' = "ValueError"
          /\ UNCHANGED <<split_token_id, bos_mode>>
     ELSE /\ col_state' = "built"
          /\ split_token_id' = IF IsNone(eos_token_id) THEN bos_token_id
                                                       ELSE eos_token_id
          /\ bos_mode' = IsNone(eos_token_id)
  /\ UNCHANGED <<col_batch, call_result, notCollate>>

\* cumulative_sep of lines 290-292
CumulativeSep(input_ids, ndim, split) ==
  CumSumDim1(TorchEq(input_ids, split, ndim), ndim)

\* lines 298-299 on a two-dimensional cumulative_sep: a zero column, then
\* all but the last column
RightShift(cum) ==
  [i \in 1..Len(cum) |-> <<0>> \o SubSeq(cum[i], 1, Len(cum[i]) - 1)]

\* get_sequence_id_from_batch: [err, value].  torch.cat of the
\* two-dimensional left_zeros with a cumulative_sep of another rank raises
GetSequenceId(input_ids, ndim, split, bos) ==
  LET cum == CumulativeSep(input_ids, ndim, split)
  IN  IF bos THEN [err |-> "none", value |-> Some(cum)]
      ELSE IF ndim # 2 THEN [err |-> "RuntimeError", value |-> None]
      ELSE [err |-> "none", value |-> Some(RightShift(cum))]

\* __call__ with the batch the base collator returned
CollatorCall(input_ids, ndim) ==
  /\ col_state = "built"
  /\ call_result = "none"
  /\ LET r == GetSequenceId(input_ids, ndim, Get(split_token_id), bos_mode)
     IN  /\ col_batch' = [ndim |-> ndim, input_ids |-> Some(input_ids),
                         sequence_id |-> r.value]
         /\ call_result' = IF r.err = "none" THEN "returned" ELSE r.err
  /\ UNCHANGED <<col_state, split_token_id, bos_mode, notCollate>>

NoBatch == [ndim |-> 0, input_ids |-> None, sequence_id |-> None]

OptionalTokenIds == {None} \cup {Some(x) : x \in TokenIds}

\* the shapes among `shapes` a batch can have now: __call__ runs once, on
\* a wrapper that was built
CallableShapes(shapes) ==
  IF col_state = "built" /\ call_result = "none" THEN shapes ELSE {}

NextCollate ==
  \/ \E e, b \in OptionalTokenIds : CollatorInit(e, b)
  \/ \E sh \in CallableShapes(Shapes2D) :
       \E t \in Tensors2D(sh[1], sh[2], TokenIds) : CollatorCall(t, 2)
  \/ \E sh \in CallableShapes(Shapes3D) :
       \E t \in Tensors3D(sh[1], sh[2], sh[3], TokenIds) : CollatorCall(t, 3)

----------------------------------------------------------------------------
\* get_tokens_per_batch_func (dataloader.py lines 382-419)

\* the shapes of the tensors a counted batch holds
CountShapes2D == {<<1, MaxSeqLen>>, <<MaxRows, 1>>}

CountShapes3D == {<<1, 2, 1>>}

\* [ndim, value] for every tensor of ndim dimensions of the shapes above
CountTensors(ndim) ==
  IF ndim = 2
  THEN UNION {{[ndim |-> 2, value |-> t] :
                 t \in Tensors2D(sh[1], sh[2], TokenIds)} : sh \in CountShapes2D}
  ELSE UNION {{[ndim |-> 3, value |-> t] :
                 t \in Tensors3D(sh[1], sh[2], sh[3], TokenIds)} :
                sh \in CountShapes3D}

\* the batches a call may receive: a Mapping or not, with or without the
\* keys input_ids (of ndim dimensions) and decoder_input_ids (a key is
\* absent when None)
CountBatches(ndim) ==
  [ is_mapping        : BOOLEAN,
    input_ids         : {None} \cup {Some(t) : t \in CountTensors(ndim)},
    decoder_input_ids : {None} \cup
                        {Some([ndim |-> 2, value |-> t]) :
                           t \in Tensors2D(1, 2, TokenIds)} ]

\* 'key' in batch
InBatch(batch, key) == ~IsNone(batch[key])

\* torch.sum(t): the sum of all entries
TorchSum(t, ndim) ==
  IF ndim = 2
  THEN SumSeq([i \in 1..Len(t) |-> SumSeq(t[i])])
  ELSE SumSeq([i \in 1..Len(t) |->
                 SumSeq([j \in 1..Len(t[i]) |-> SumSeq(t[i][j])])])

\* a count that takes the pad tokens instead of the others
CountNonPaddingPads(t, pad_token_id) ==
  TorchSum(TorchEq(t.value, pad_token_id, t.ndim), t.ndim)

\* int(torch.sum(t != pad_token_id).item())
CountNonPadding(t, pad_token_id) ==
  LET eq == TorchEq(t.value, pad_token_id, t.ndim)
      ne == IF t.ndim = 2
            THEN [i \in 1..Len(eq) |-> [j \in 1..Len(eq[i]) |-> 1 - eq[i][j]]]
            ELSE [i \in 1..Len(eq) |-> [j \in 1..Len(eq[i]) |->
                    [k \in 1..Len(eq[i][j]) |-> 1 - eq[i][j][k]]]]
  IN  TorchSum(ne, t.ndim)

\* a check of the keys that asks for decoder_input_ids whatever
\* decoder_only says
BatchKeyErrorBothKeys(batch, decoder_only) ==
  \/ ~batch.is_mapping \/ ~InBatch(batch, "input_ids")
  \/ ~InBatch(batch, "decoder_input_ids")

\* the two raises of lines 397-405
BatchKeyError(batch, decoder_only) ==
  \/ ~batch.is_mapping \/ ~InBatch(batch, "input_ids")
  \/ ~decoder_only /\ ~InBatch(batch, "decoder_input_ids")

\* get_num_samples_in_batch (lines 396-417): [err, count]
GetNumSamplesInBatch(batch, pad_token_id, decoder_only) ==
  IF BatchKeyError(batch, decoder_only)
  THEN [err |-> "ValueError", count |-> None]
  ELSE LET input_ids_tokens ==
             CountNonPadding(Get(batch.input_ids), pad_token_id)
           decoder_input_ids_tokens ==
             IF ~decoder_only
             THEN CountNonPadding(Get(batch.decoder_input_ids), pad_token_id)
             ELSE 0
       IN  [err |-> "none",
            count |-> Some(input_ids_tokens + decoder_input_ids_tokens)]

notCount == <<dsVars, colVars, poolVars, gatherVars, modelVars, artanhVars, projVars,
         dlVars>>

\* get_tokens_per_batch_func(pad_token_id, decoder_only) returns the callable
GetTokensPerBatchFunc(pad_token_id, decoder_only) ==
  /\ tc_state = "new"
  /\ tc_state' = "built"
  /\ tc_pad_token_id' = pad_token_id
  /\ tc_decoder_only' = decoder_only
  /\ UNCHANGED <<tc_batch, tc_result, notCount>>

\* one call of the callable per behaviour: it keeps no state between calls
CountTokens(batch) ==
  /\ tc_state = "built"
  /\ tc_result = None
  /\ tc_batch' = Some(batch)
  /\ tc_result' = Some(GetNumSamplesInBatch(batch, tc_pad_token_id,
                                             tc_decoder_only))
  /\ UNCHANGED <<tc_state, tc_pad_token_id, tc_decoder_only, notCount>>

\* the batches a call may be made with: none unless CountTokens' guard holds
CallableCountBatches(ndim) ==
  IF tc_state = "built" /\ tc_result = None THEN CountBatches(ndim) ELSE {}

NextCount ==
  \/ \E pad_token_id \in TokenIds, decoder_only \in BOOLEAN :
       GetTokensPerBatchFunc(pad_token_id, decoder_only)
  \/ \E batch \in CallableCountBatches(2) : CountTokens(batch)
  \/ \E batch \in CallableCountBatches(3) : CountTokens(batch)

----------------------------------------------------------------------------
\* project / _project (modeling_mpt_embed.py lines 414-440) and the
\* projections of poincare_distance (lines 451-455).
\* A real is the integer real * 1e8.  The vectors have at most one non-zero
\* component, so that their 2-norm is an integer too.

\* 1 in units of 1e-8
ProjectOne == 100000000

\* the 1e-5 of torch.clamp_min(..., 1e-5), in units of 1e-8
ProjectMinNorm == 1000

\* the norms of the vectors: 0, below 1e-5, 1e-5, around 1 - 1e-3, 1, above
ProjectNorms == {0, 500, ProjectMinNorm, 50000000, 99900000, 99900001,
                 ProjectOne, 2 * ProjectOne}

\* the vectors: each norm along the first axis and against the second
ProjectVectors ==
  {<<n, 0>> : n \in ProjectNorms} \cup {<<0, -n>> : n \in ProjectNorms}

\* the curvatures c, each given by its square root <<num, den>>:
\* c = 1/4, 1 (the default), 4 and 111000^2
SqrtCs == {<<1, 2>>, <<1, 1>>, <<2, 1>>, <<111000, 1>>}

\* c = 1.0, the default of project
DefaultSqrtC == <<1, 1>>

Abs(i) == IF i < 0 THEN -i ELSE i

Sign(i) == IF i < 0 THEN -1 ELSE IF i > 0 THEN 1 ELSE 0

\* x.norm(dim=-1, p=2) of a vector with at most one non-zero component
Norm2(x) == SumSeq([h \in 1..Len(x) |-> Abs(x[h])])

\* torch.clamp_min(v, lo)
ClampMin(v, lo) == IF v < lo THEN lo ELSE v

\* a maxnorm without the 1e-3 margin: 1 / sqrt(c)
MaxNormOfBall(sqrt_c) == (ProjectOne * sqrt_c[2]) \div sqrt_c[1]

\* maxnorm = (1 - 1e-3) / (c ** 0.5)
MaxNorm(sqrt_c) ==
  ((ProjectOne - ProjectOne \div 1000) * sqrt_c[2]) \div sqrt_c[1]

\* one component of x / norm * maxnorm: the quotient is -1, 0 or 1 unless
\* the norm was clamped, and then the numbers are small
ScaleComponent(xh, norm, maxnorm) ==
  IF Abs(xh) = norm THEN Sign(xh) * maxnorm
  ELSE (xh * maxnorm) \div norm

\* _project(x, c), lines 435-440
Project(x, sqrt_c) ==
  LET norm == ClampMin(Norm2(x), ProjectMinNorm)
      maxnorm == MaxNorm(sqrt_c)
      cond == norm > maxnorm
      projected == [h \in 1..Len(x) |-> ScaleComponent(x[h], norm, maxnorm)]
  IN  IF cond THEN projected ELSE x

\* the factors of (1 - |q|^2) * (1 - |p|^2), line 455
DenominatorFactors(q, p) ==
  <<ProjectOne - Norm2(q), ProjectOne + Norm2(q),
    ProjectOne - Norm2(p), ProjectOne + Norm2(p)>>

notProject == <<dsVars, colVars, poolVars, gatherVars, modelVars, artanhVars,
                countVars,
         dlVars>>

\* self.project(x, c=c)
ProjectCall(x, sqrt_c) ==
  /\ pj_out = None
  /\ pj_x' = x
  /\ pj_sqrt_c' = sqrt_c
  /\ pj_out' = Some(Project(x, sqrt_c))
  /\ UNCHANGED <<pj_pair, notProject>>

\* poincare_distance up to its denominator (lines 451-455)
PoincareDistanceDenominator(queries, passages) ==
  /\ pj_pair = None
  /\ LET hyperbolic_queries == Project(queries, DefaultSqrtC)
         hyperbolic_passages == Project(passages, DefaultSqrtC)
     IN  pj_pair' = Some([queries |-> queries, passages |-> passages,
                          hyperbolic_queries |-> hyperbolic_queries,
                          hyperbolic_passages |-> hyperbolic_passages,
                          denominator |->
                            DenominatorFactors(hyperbolic_queries,
                                               hyperbolic_passages)])
  /\ UNCHANGED <<pj_x, pj_sqrt_c, pj_out, notProject>>

NextProject ==
  \/ \E x \in ProjectVectors, sqrt_c \in SqrtCs : ProjectCall(x, sqrt_c)
  \/ \E q, p \in ProjectVectors : PoincareDistanceDenominator(q, p)

----------------------------------------------------------------------------
\* Masked mean pooling (_compute_scores lines 291-295,
\* poincare_contrastive_loss lines 479-483)

\* largest entry of the hidden states
MaxHidden == 1

\* the (rows, seq, hidden) shapes of the pooled tensors
PoolShapes == {<<1, 2, 2>>, <<2, 2, 1>>, <<1, 3, 1>>}

\* a pooling that forgets the mask: the hidden states are summed as they are
MaskedFillNoMask(hidden, mask) == hidden

\* x.masked_fill(~mask[..., None].bool(), 0.0): a position whose mask is
\* zero has every hidden component replaced by 0
MaskedFill(hidden, mask) ==
  [r \in 1..Len(hidden) |-> [k \in 1..Len(hidden[r]) |->
     [h \in 1..Len(hidden[r][k]) |->
        IF mask[r][k] # 0 THEN hidden[r][k][h] ELSE 0]]]

\* x.sum(dim=1) of a (rows, seq, hidden) tensor; hid is the hidden size
SumDim1(x, hid) ==
  [r \in 1..Len(x) |-> [h \in 1..hid |->
     SumSeq([k \in 1..Len(x[r]) |-> x[r][k][h]])]]

\* masked_fill(...).sum(dim=1) / attention_mask.sum(dim=1)[..., None]:
\* row r is the quotient sum / cnt, kept as the exact fraction (cnt = 0 is
\* the division 0/0 torch answers with nan)
MaskedMeanPool(hidden, mask, hid) ==
  LET summed == SumDim1(MaskedFill(hidden, mask), hid)
  IN  [r \in 1..Len(hidden) |-> [sum |-> summed[r], cnt |-> SumSeq(mask[r])]]

Pool ==
  /\ IsNone(p_out)
  /\ p_out' = Some(MaskedMeanPool(p_hidden, p_mask, Len(p_hidden[1][1])))
  /\ UNCHANGED <<p_hidden, p_mask, notPool>>

NextPool == Pool

----------------------------------------------------------------------------
\* dist_gather_tensor

\* largest world size of the gather model
MaxWorld == 2

\* most rows of the tensor a rank passes
MaxGatherRows == 2

\* largest entry of a gathered tensor
MaxGatherValue == 1

Ranks(w) == 0..(w - 1)

RECURSIVE CatFrom(_, _, _)
\* torch.cat(all_tensors, dim=0) from list index i on, w the list's length
CatFrom(all_tensors, i, w) ==
  IF i >= w THEN <<>> ELSE all_tensors[i] \o CatFrom(all_tensors, i + 1, w)

\* a gather that writes the caller's tensor into slot 0 instead of its own
GatherResultOwnAtZero(gathered, rank, t, w) ==
  LET all_tensors == [i \in Ranks(w) |-> IF i = 0 THEN t ELSE gathered[i]]
  IN  CatFrom(all_tensors, 0, w)

\* lines 88-93 once all_gather has filled the list: gathered[i] is the
\* tensor rank i passed; the caller's slot is overwritten with its own t
GatherResult(gathered, rank, t, w) ==
  LET all_tensors == [i \in Ranks(w) |-> IF i = rank THEN t ELSE gathered[i]]
  IN  CatFrom(all_tensors, 0, w)

\* the call up to torch.distributed.all_gather; None returns at once
GatherCall(r) ==
  /\ g_pc[r] = "start"
  /\ IF IsNone(g_arg[r])
     THEN /\ g_pc' = [g_pc EXCEPT ![r] = "returned"]
          /\ g_out' = [g_out EXCEPT ![r] = None]
          /\ UNCHANGED g_buf
     ELSE /\ g_pc' = [g_pc EXCEPT ![r] = "in_all_gather"]
          /\ g_buf' = [g_buf EXCEPT ![r] = g_arg[r]]
          /\ UNCHANGED g_out
  /\ UNCHANGED <<g_world, g_arg, notGather>>

\* all_gather completes on rank r once every rank has joined it
GatherReturn(r) ==
  /\ g_pc[r] = "in_all_gather"
  /\ \A i \in Ranks(g_world) : ~IsNone(g_buf[i])
  /\ g_out' = [g_out EXCEPT ![r] =
        Some(GatherResult([i \in Ranks(g_world) |-> Get(g_buf[i])],
                          r, Get(g_arg[r]), g_world))]
  /\ g_pc' = [g_pc EXCEPT ![r] = "returned"]
  /\ UNCHANGED <<g_world, g_arg, g_buf, notGather>>

NextGather ==
  \/ \E r \in Ranks(g_world) : GatherCall(r)
  \/ \E r \in Ranks(g_world) : GatherReturn(r)

----------------------------------------------------------------------------
\* Artanh (lines 95-106).  A real x is the integer x * 1e5

\* 1 in units of 1e-5
FixedPointOne == 100000

\* the 1e-5 of x.clamp(-1 + 1e-5, 1 - 1e-5), in units of 1e-5
ArtanhEps == 1

\* the inputs and the upstream gradients Artanh is applied to
ArtanhInputs == {-2 * FixedPointOne, -FixedPointOne, 0, FixedPointOne - 1,
                 FixedPointOne, FixedPointOne + 50000}

ArtanhGrads == {-1, 2}

\* x.clamp(lo, hi)
Clamp(x, lo, hi) == IF x < lo THEN lo ELSE IF x > hi THEN hi ELSE x

ArtanhClamp(x) ==
  Clamp(x, -FixedPointOne + ArtanhEps, FixedPointOne - ArtanhEps)

\* Artanh.forward: saves the clamped x; the result 0.5 * (log(1 + x) -
\* log(1 - x)) is kept as the pair the logarithms are taken of
ArtanhForward(x) ==
  /\ IsNone(artanh_ctx)
  /\ LET xc == ArtanhClamp(x)
     IN  /\ artanh_ctx' = Some(xc)
         /\ artanh_res' = Some([fn |-> "Artanh",
                                log_of |-> <<FixedPointOne + xc, FixedPointOne - xc>>])
  /\ UNCHANGED <<artanh_grad, modelVars, notModel>>

\* Artanh.backward: grad_output / (1 - input ** 2), kept exact with the
\* denominator as its two factors: 1 - x**2 = (1 - x) * (1 + x)
ArtanhBackwardValue(saved, grad_output) ==
  [num |-> grad_output,
   den_factors |-> <<FixedPointOne - saved, FixedPointOne + saved>>]

ArtanhBackward(grad_output) ==
  /\ ~IsNone(artanh_ctx)
  /\ IsNone(artanh_grad)
  /\ artanh_grad' = Some(ArtanhBackwardValue(Get(artanh_ctx), grad_output))
  /\ UNCHANGED <<artanh_ctx, artanh_res, modelVars, notModel>>

----------------------------------------------------------------------------
\* ComposerMPTContrastiveLM: configuration and batches

\* most samples of one rank's batch
MaxSamples == 2

\* sequence length of the model's batches
ModelSeqLen == 2

\* hidden size of the backbone
ModelHidden == 2

\* the batches differ by a seed
Seeds == {0, 1}

\* texts per sample the dataset may emit
TextCounts == {2, 3}

\* om_model_config, and whether flash_attn's fused loss can be imported
ModelConfigs ==
  [ pos_step_size   : {None, Some(2), Some(3)},
    loss_fn         : {None, Some("torch_crossentropy"), Some("bce")},
    temperature     : {None, Some(2)},
    fused_installed : BOOLEAN ]

NoConfig == [pos_step_size |-> None, loss_fn |-> None, temperature |-> None,
             fused_installed |-> FALSE]

\* self.config.to_dict().get("pos_step_size", 2)
StepSize(cfg) == PopOr(cfg.pos_step_size, 2)

\* resolved_om_model_config.get('temperature', 1)
Temperature(cfg) == PopOr(cfg.temperature, 1)

\* __init__ lines 171-191.  The message of the last raise reads
\* self.loss_fn, which no branch has set on that path
LossFnOutcome(cfg) ==
  LET loss_fn_config == PopOr(cfg.loss_fn, "fused_crossentropy")
  IN  IF loss_fn_config = "fused_crossentropy"
      THEN IF cfg.fused_installed THEN "built" ELSE "ValueError"
      ELSE IF loss_fn_config = "torch_crossentropy" THEN "built"
      ELSE "AttributeError"

ModelInit(cfg) ==
  /\ m_state = "new"
  /\ m_cfg' = cfg
  /\ m_state' = LossFnOutcome(cfg)
  /\ UNCHANGED <<m_world, m_batch, m_pc, m_dims, m_calls, m_outputs, m_method,
                 m_local, m_result, artanhVars, notModel>>

\* a text of 1..ModelSeqLen tokens padded to ModelSeqLen with token 0
TextLen(seed, rank, i, j) == 1 + ((seed + rank + i + j) % ModelSeqLen)

BatchInputIds(seed, rank, d1, d2) ==
  [i \in 1..d1 |-> [j \in 1..d2 |-> [k \in 1..ModelSeqLen |->
     IF k <= TextLen(seed, rank, i, j) THEN 1 + ((seed + i + k) % 2) ELSE 0]]]

BatchAttentionMask(seed, rank, d1, d2) ==
  [i \in 1..d1 |-> [j \in 1..d2 |-> [k \in 1..ModelSeqLen |->
     IF k <= TextLen(seed, rank, i, j) THEN 1 ELSE 0]]]

\* DataCollatorForLanguageModeling: labels are input_ids with pad as -100
BatchLabels(input_ids) ==
  [i \in 1..Len(input_ids) |-> [j \in 1..Len(input_ids[i]) |->
     [k \in 1..Len(input_ids[i][j]) |->
        IF input_ids[i][j][k] = 0 THEN -100 ELSE input_ids[i][j][k]]]]

\* a prefix_mask (line 237): 1 on the first token of every text
BatchPrefixMask(d1, d2) ==
  [i \in 1..d1 |-> [j \in 1..d2 |-> [k \in 1..ModelSeqLen |->
     IF k = 1 THEN 1 ELSE 0]]]

\* the keys a batch may hold besides input_ids, attention_mask and labels
OptionalKeySets == {{}, {"sequence_id"}, {"prefix_mask"}}

\* the batch the dataloader hands to rank `rank`: (d1, d2, seq) tensors;
\* sequence_id is there when the collator wrapper is used (bos mode, bos 1)
BatchOf(seed, rank, d1, d2, optional_keys) ==
  LET ids == BatchInputIds(seed, rank, d1, d2)
      keys == {"input_ids", "attention_mask", "labels"} \cup optional_keys
  IN  [key \in keys |->
         IF key = "input_ids" THEN ids
         ELSE IF key = "attention_mask" THEN BatchAttentionMask(seed, rank, d1, d2)
         ELSE IF key = "labels" THEN BatchLabels(ids)
         ELSE IF key = "prefix_mask" THEN BatchPrefixMask(d1, d2)
         ELSE Get(GetSequenceId(ids, 3, 1, TRUE).value)]

----------------------------------------------------------------------------
\* ComposerMPTContrastiveLM.forward

\* the keys lines 228-248 reshape
ReshapedKeys == {"input_ids", "attention_mask", "prefix_mask", "sequence_id",
                 "input_embeds", "labels"}

\* a reshape that lays the texts out text by text: row j * dim1 + i is
\* t[i][j]
ReshapeTextMajor(t) ==
  [m \in 1..(Len(t) * Len(t[1])) |->
     t[((m - 1) % Len(t)) + 1][((m - 1) \div Len(t)) + 1]]

\* t.reshape((dim1 * dim2, dim3)) of a (dim1, dim2, dim3) tensor: row
\* i * dim2 + j is t[i][j]
Reshape(t) == ConcatAll(t)

\* the backbone self.model(...), which lives outside this repository's
\* sources: hidden_states of shape (rows, seq, ModelHidden), position k of
\* a row depending on the row's tokens up to k
Backbone(input_ids, attention_mask) ==
  [r \in 1..Len(input_ids) |-> [k \in 1..Len(input_ids[r]) |->
     [h \in 1..ModelHidden |->
        IF h = 1 THEN input_ids[r][k]
        ELSE (SumSeq(SubSeq(input_ids[r], 1, k)) + h) % 3]]]

\* the invocations of self.model forward makes, in order: lines 250-256
BackboneCalls(batch) ==
  <<[input_ids |-> batch["input_ids"],
     attention_mask |-> batch["attention_mask"]]>>

Forward(r) ==
  /\ m_state = "built"
  /\ m_pc[r] = "batch"
  /\ LET b == m_batch[r]
         reshaped == [key \in DOMAIN b |->
                        IF key \in ReshapedKeys THEN Reshape(b[key]) ELSE b[key]]
         calls == BackboneCalls(reshaped)
     IN  /\ m_dims' = [m_dims EXCEPT ![r] =
               Some(<<Len(b["input_ids"]), Len(b["input_ids"][1]),
                      Len(b["input_ids"][1][1])>>)]
         /\ m_batch' = [m_batch EXCEPT ![r] = reshaped]
         /\ m_calls' = [m_calls EXCEPT ![r] = m_calls[r] \o calls]
         /\ m_outputs' = [m_outputs EXCEPT ![r] =
               Some(Backbone(calls[Len(calls)].input_ids,
                             calls[Len(calls)].attention_mask))]
  /\ m_pc' = [m_pc EXCEPT ![r] = "forwarded"]
  /\ UNCHANGED <<m_world, m_cfg, m_state, m_method, m_local, m_result,
                 artanhVars, notModel>>

----------------------------------------------------------------------------
\* format_queries_batch / format_passages_batch (row indices count from 0)

\* the rows t[0::step_size] selects of n rows
QueryIndex(n, step_size) ==
  [m \in 1..((n + step_size - 1) \div step_size) |-> (m - 1) * step_size]

\* an index of every row that starts no block, the rows after the last
\* whole block included
PassageIndexEveryOtherRow(n, step_size) ==
  LET per_block == step_size - 1
  IN  [m \in 1..(n - (n + step_size - 1) \div step_size) |->
         ((m - 1) \div per_block) * step_size + 1 + ((m - 1) % per_block)]

\* the index lines 210-213 build: pattern 1..step_size-1 added to every
\* block start below num_blocks * step_size, flattened block by block
PassageIndex(n, step_size) ==
  LET num_blocks == n \div step_size
      per_block == step_size - 1
  IN  [m \in 1..(num_blocks * per_block) |->
         ((m - 1) \div per_block) * step_size + 1 + ((m - 1) % per_block)]

\* t[index]
Select(t, index) == [m \in 1..Len(index) |-> t[index[m] + 1]]

FormatQueriesBatch(batch, last_hidden_state, step_size) ==
  [batch |-> [key \in DOMAIN batch |->
                Select(batch[key], QueryIndex(Len(batch[key]), step_size))],
   hidden |-> Select(last_hidden_state,
                     QueryIndex(Len(last_hidden_state), step_size))]

\* the hidden states are indexed with the index of the last key, and every
\* key of a batch has the same number of rows
FormatPassagesBatch(batch, last_hidden_state, step_size) ==
  [batch |-> [key \in DOMAIN batch |->
                Select(batch[key], PassageIndex(Len(batch[key]), step_size))],
   hidden |-> Select(last_hidden_state,
                     PassageIndex(Len(batch["input_ids"]), step_size))]

----------------------------------------------------------------------------
\* Pooled embeddings, scores and distances

\* Every pooled row carries the place it came from, id = <<rank, row of the
\* flattened batch>>: the row numbers ride through format_*_batch as one
\* more key of the batch, so they are selected exactly as the tensors are.
WithRowNumbers(batch) ==
  [key \in DOMAIN batch \cup {"row"} |->
     IF key = "row" THEN [i \in 1..Len(batch["input_ids"]) |-> i - 1]
     ELSE batch[key]]

\* lines 291-300 (normalized) and 479-483 (not normalized) on one side of
\* the split: the pooled rows of a formatted batch
PooledRows(rank, formatted, normalized) ==
  LET pooled == MaskedMeanPool(formatted.hidden,
                               formatted.batch["attention_mask"], ModelHidden)
  IN  [m \in 1..Len(pooled) |->
         [id |-> <<rank, formatted.batch["row"][m]>>,
          sum |-> pooled[m].sum, cnt |-> pooled[m].cnt,
          normalized |-> normalized]]

\* what a rank hands to the two all_gather calls
LocalPooled(rank, batch, hidden, step_size, normalized) ==
  LET b == WithRowNumbers(batch)
  IN  [q |-> PooledRows(rank, FormatQueriesBatch(b, hidden, step_size), normalized),
       p |-> PooledRows(rank, FormatPassagesBatch(b, hidden, step_size), normalized)]

\* the inner product of two integer vectors
IntDot(a, b) == SumSeq([h \in 1..Len(a) |-> a[h] * b[h]])

\* one entry of torch.mm(queries, passages.t()) * (1 / temperature) for
\* normalized rows: num / sqrt(den2) / temperature
ScoreEntry(q, p, temperature) ==
  [q |-> q.id, p |-> p.id,
   num |-> IntDot(q.sum, p.sum),
   den2 |-> IntDot(q.sum, q.sum) * IntDot(p.sum, p.sum),
   temperature |-> temperature]

\* full_contrastive_scores_and_labels, then the scaling of line 318
FullContrastiveScoresAndLabels(queries, passages, temperature) ==
  [labels |-> [j \in 1..Len(passages) |-> j - 1],
   scores |-> [i \in 1..Len(queries) |-> [j \in 1..Len(passages) |->
                 ScoreEntry(queries[i], passages[j], temperature)]]]

\* tensors of a and b rows broadcast along dimension 0
Broadcastable(a, b) == a = b \/ a = 1 \/ b = 1

BroadcastLen(a, b) == IF a = 1 THEN b ELSE a

\* row m of a tensor of n rows inside a broadcast
BroadcastRow(t, m) == IF Len(t) = 1 THEN t[1] ELSE t[m]

\* a poincare_distance that measures with self.dist, and so with Artanh
PoincareDistanceEntryViaDist(q, p) == [q |-> q.id, p |-> p.id, fn |-> "Artanh"]

\* one entry of poincare_distance (lines 451-458): the pair it measures
\* and the function the distance is taken with
PoincareDistanceEntry(q, p) == [q |-> q.id, p |-> p.id, fn |-> "acosh"]

\* poincare_distance: queries - passages pairs the rows up by broadcasting
PoincareDistance(queries, passages) ==
  IF ~Broadcastable(Len(queries), Len(passages))
  THEN [err |-> "RuntimeError", value |-> <<>>]
  ELSE [err |-> "none",
        value |-> [m \in 1..BroadcastLen(Len(queries), Len(passages)) |->
                     PoincareDistanceEntry(BroadcastRow(queries, m),
                                           BroadcastRow(passages, m))]]

\* torch.cat([torch.ones(1), torch.zeros(n - 1)]); zeros(-1) raises
PoincareLabels(n) ==
  IF n < 1 THEN [err |-> "RuntimeError", value |-> <<>>]
  ELSE [err |-> "none", value |-> [j \in 1..n |-> IF j = 1 THEN 1 ELSE 0]]

\* poincare_contrastive_loss from line 488 on
PoincareContrastiveLoss(q_pooled, all_p) ==
  LET d == PoincareDistance(q_pooled, all_p)
      l == PoincareLabels(Len(all_p))
      failed(e) == [kind |-> "poincare", err |-> e, labels |-> <<>>,
                    distances |-> <<>>, terms |-> <<>>]
  IN  IF d.err # "none" THEN failed(d.err)
      ELSE IF l.err # "none" THEN failed(l.err)
      ELSE IF ~Broadcastable(Len(l.value), Len(d.value)) THEN failed("RuntimeError")
      ELSE [kind |-> "poincare", err |-> "none", labels |-> l.value,
            distances |-> d.value,
            terms |-> [m \in 1..BroadcastLen(Len(l.value), Len(d.value)) |->
                         [label |-> BroadcastRow(l.value, m),
                          distance |-> BroadcastRow(d.value, m)]]]

\* loss() (lines 496-515) of a model configured with cfg: the
\* configuration (loss_fn, temperature) is not consulted
Loss(cfg, q_pooled, all_p) == PoincareContrastiveLoss(q_pooled, all_p)

Methods == {"loss", "_compute_scores"}

\* loss() / _compute_scores() up to the first all_gather
Enter(r, method) ==
  /\ m_pc[r] = "forwarded"
  /\ IsNone(m_method) \/ m_method = Some(method)
  /\ m_method' = Some(method)
  /\ m_local' = [m_local EXCEPT ![r] =
        Some(LocalPooled(r, m_batch[r], Get(m_outputs[r]), StepSize(m_cfg),
                         method = "_compute_scores"))]
  /\ m_pc' = [m_pc EXCEPT ![r] = "gathering"]
  /\ UNCHANGED <<m_world, m_cfg, m_state, m_batch, m_dims, m_calls, m_outputs,
                 m_result, artanhVars, notModel>>

\* what the method returns once the all_gathers have completed
MethodResult(r) ==
  LET own == Get(m_local[r])
      all_q == GatherResult([i \in Ranks(m_world) |-> Get(m_local[i]).q],
                            r, own.q, m_world)
      all_p == GatherResult([i \in Ranks(m_world) |-> Get(m_local[i]).p],
                            r, own.p, m_world)
  IN  IF Get(m_method) = "loss"
      THEN Loss(m_cfg, own.q, all_p)
      ELSE LET sl == FullContrastiveScoresAndLabels(all_q, all_p, Temperature(m_cfg))
           IN  [kind |-> "infonce_scores", err |-> "none", labels |-> sl.labels,
                scores |-> sl.scores, all_q |-> all_q, all_p |-> all_p]

Finish(r) ==
  /\ m_pc[r] = "gathering"
  /\ \A i \in Ranks(m_world) : ~IsNone(m_local[i])
  /\ m_result' = [m_result EXCEPT ![r] = Some(MethodResult(r))]
  /\ m_pc' = [m_pc EXCEPT ![r] = "done"]
  /\ UNCHANGED <<m_world, m_cfg, m_state, m_batch, m_dims, m_calls, m_outputs,
                 m_method, m_local, artanhVars, notModel>>

NextModel ==
  \/ \E cfg \in ModelConfigs : ModelInit(cfg)
  \/ \E r \in Ranks(m_world) : Forward(r)
  \/ \E r \in Ranks(m_world) : \E method \in Methods : Enter(r, method)
  \/ \E r \in Ranks(m_world) : Finish(r)

\* the model together with the hyperbolic functions of the module
NextDistance ==
  \/ \E cfg \in ModelConfigs : ModelInit(cfg)
  \/ \E r \in Ranks(m_world) : Forward(r)
  \/ \E r \in Ranks(m_world) : \E method \in Methods : Enter(r, method)
  \/ \E r \in Ranks(m_world) : Finish(r)
  \/ \E x \in ArtanhInputs : ArtanhForward(x)
  \/ \E g \in ArtanhGrads : ArtanhBackward(g)

----------------------------------------------------------------------------
\* Specifications
\* (a component a specification does not exercise stays as constructed)

\* the dataset: one tokenizer, one __init__, one __getitem__
InitData ==
  /\ tokenizer \in Tokenizers
  /\ ds_state = "new"
  /\ append_eos_token = None
  /\ append_token = None
  /\ prepend_query = <<>>
  /\ prepend_passage = <<>>
  /\ sample = <<>>
  /\ text_samples = <<>>
  /\ getitem_result = "none"
  /\ dl_state = "new"
  /\ dl_token_counting_func = None
  /\ col_state = "new"
  /\ split_token_id = None
  /\ bos_mode = FALSE
  /\ col_batch = NoBatch
  /\ call_result = "none"
  /\ p_hidden = <<>>
  /\ p_mask = <<>>
  /\ p_out = None
  /\ g_world = 1
  /\ g_arg = [r \in Ranks(1) |-> None]
  /\ g_pc = [r \in Ranks(1) |-> "start"]
  /\ g_buf = [r \in Ranks(1) |-> None]
  /\ g_out = [r \in Ranks(1) |-> None]
  /\ m_world = 1
  /\ m_cfg = NoConfig
  /\ m_state = "new"
  /\ m_batch = [r \in Ranks(1) |-> <<>>]
  /\ m_pc = [r \in Ranks(1) |-> "batch"]
  /\ m_dims = [r \in Ranks(1) |-> None]
  /\ m_calls = [r \in Ranks(1) |-> <<>>]
  /\ m_outputs = [r \in Ranks(1) |-> None]
  /\ m_method = None
  /\ m_local = [r \in Ranks(1) |-> None]
  /\ m_result = [r \in Ranks(1) |-> None]
  /\ artanh_ctx = None
  /\ artanh_res = None
  /\ artanh_grad = None
  /\ pj_x = <<0, 0>>
  /\ pj_sqrt_c = <<1, 1>>
  /\ pj_out = None
  /\ pj_pair = None
  /\ tc_state = "new"
  /\ tc_pad_token_id = 0
  /\ tc_decoder_only = TRUE
  /\ tc_batch = None
  /\ tc_result = None

SpecData == InitData /\ [][NextData]_vars

\* the collator wrapper: one __init__, one __call__
InitCollate ==
  /\ tokenizer = [pad_token |-> None, eos_token |-> None]
  /\ ds_state = "new"
  /\ append_eos_token = None
  /\ append_token = None
  /\ prepend_query = <<>>
  /\ prepend_passage = <<>>
  /\ sample = <<>>
  /\ text_samples = <<>>
  /\ getitem_result = "none"
  /\ dl_state = "new"
  /\ dl_token_counting_func = None
  /\ col_state = "new"
  /\ split_token_id = None
  /\ bos_mode = FALSE
  /\ col_batch = NoBatch
  /\ call_result = "none"
  /\ p_hidden = <<>>
  /\ p_mask = <<>>
  /\ p_out = None
  /\ g_world = 1
  /\ g_arg = [r \in Ranks(1) |-> None]
  /\ g_pc = [r \in Ranks(1) |-> "start"]
  /\ g_buf = [r \in Ranks(1) |-> None]
  /\ g_out = [r \in Ranks(1) |-> None]
  /\ m_world = 1
  /\ m_cfg = NoConfig
  /\ m_state = "new"
  /\ m_batch = [r \in Ranks(1) |-> <<>>]
  /\ m_pc = [r \in Ranks(1) |-> "batch"]
  /\ m_dims = [r \in Ranks(1) |-> None]
  /\ m_calls = [r \in Ranks(1) |-> <<>>]
  /\ m_outputs = [r \in Ranks(1) |-> None]
  /\ m_method = None
  /\ m_local = [r \in Ranks(1) |-> None]
  /\ m_result = [r \in Ranks(1) |-> None]
  /\ artanh_ctx = None
  /\ artanh_res = None
  /\ artanh_grad = None
  /\ pj_x = <<0, 0>>
  /\ pj_sqrt_c = <<1, 1>>
  /\ pj_out = None
  /\ pj_pair = None
  /\ tc_state = "new"
  /\ tc_pad_token_id = 0
  /\ tc_decoder_only = TRUE
  /\ tc_batch = None
  /\ tc_result = None

SpecCollate == InitCollate /\ [][NextCollate]_vars

\* masked mean pooling of one tensor of hidden states
InitPool ==
  /\ tokenizer = [pad_token |-> None, eos_token |-> None]
  /\ ds_state = "new"
  /\ append_eos_token = None
  /\ append_token = None
  /\ prepend_query = <<>>
  /\ prepend_passage = <<>>
  /\ sample = <<>>
  /\ text_samples = <<>>
  /\ getitem_result = "none"
  /\ dl_state = "new"
  /\ dl_token_counting_func = None
  /\ col_state = "new"
  /\ split_token_id = None
  /\ bos_mode = FALSE
  /\ col_batch = NoBatch
  /\ call_result = "none"
  /\ \E sh \in PoolShapes :
       /\ p_hidden \in Tensors3D(sh[1], sh[2], sh[3], 0..MaxHidden)
       /\ p_mask \in Tensors2D(sh[1], sh[2], {0, 1})
  /\ p_out = None
  /\ g_world = 1
  /\ g_arg = [r \in Ranks(1) |-> None]
  /\ g_pc = [r \in Ranks(1) |-> "start"]
  /\ g_buf = [r \in Ranks(1) |-> None]
  /\ g_out = [r \in Ranks(1) |-> None]
  /\ m_world = 1
  /\ m_cfg = NoConfig
  /\ m_state = "new"
  /\ m_batch = [r \in Ranks(1) |-> <<>>]
  /\ m_pc = [r \in Ranks(1) |-> "batch"]
  /\ m_dims = [r \in Ranks(1) |-> None]
  /\ m_calls = [r \in Ranks(1) |-> <<>>]
  /\ m_outputs = [r \in Ranks(1) |-> None]
  /\ m_method = None
  /\ m_local = [r \in Ranks(1) |-> None]
  /\ m_result = [r \in Ranks(1) |-> None]
  /\ artanh_ctx = None
  /\ artanh_res = None
  /\ artanh_grad = None
  /\ pj_x = <<0, 0>>
  /\ pj_sqrt_c = <<1, 1>>
  /\ pj_out = None
  /\ pj_pair = None
  /\ tc_state = "new"
  /\ tc_pad_token_id = 0
  /\ tc_decoder_only = TRUE
  /\ tc_batch = None
  /\ tc_result = None

SpecPool == InitPool /\ [][NextPool]_vars

\* dist_gather_tensor: every rank calls it once
InitGather ==
  /\ tokenizer = [pad_token |-> None, eos_token |-> None]
  /\ ds_state = "new"
  /\ append_eos_token = None
  /\ append_token = None
  /\ prepend_query = <<>>
  /\ prepend_passage = <<>>
  /\ sample = <<>>
  /\ text_samples = <<>>
  /\ getitem_result = "none"
  /\ dl_state = "new"
  /\ dl_token_counting_func = None
  /\ col_state = "new"
  /\ split_token_id = None
  /\ bos_mode = FALSE
  /\ col_batch = NoBatch
  /\ call_result = "none"
  /\ p_hidden = <<>>
  /\ p_mask = <<>>
  /\ p_out = None
  /\ g_world \in 1..MaxWorld
  /\ \E n \in 0..MaxGatherRows :
       g_arg \in [Ranks(g_world) ->
                  {None} \cup {Some(t) : t \in [1..n -> 0..MaxGatherValue]}]
  /\ g_pc = [r \in Ranks(g_world) |-> "start"]
  /\ g_buf = [r \in Ranks(g_world) |-> None]
  /\ g_out = [r \in Ranks(g_world) |-> None]
  /\ m_world = 1
  /\ m_cfg = NoConfig
  /\ m_state = "new"
  /\ m_batch = [r \in Ranks(1) |-> <<>>]
  /\ m_pc = [r \in Ranks(1) |-> "batch"]
  /\ m_dims = [r \in Ranks(1) |-> None]
  /\ m_calls = [r \in Ranks(1) |-> <<>>]
  /\ m_outputs = [r \in Ranks(1) |-> None]
  /\ m_method = None
  /\ m_local = [r \in Ranks(1) |-> None]
  /\ m_result = [r \in Ranks(1) |-> None]
  /\ artanh_ctx = None
  /\ artanh_res = None
  /\ artanh_grad = None
  /\ pj_x = <<0, 0>>
  /\ pj_sqrt_c = <<1, 1>>
  /\ pj_out = None
  /\ pj_pair = None
  /\ tc_state = "new"
  /\ tc_pad_token_id = 0
  /\ tc_decoder_only = TRUE
  /\ tc_batch = None
  /\ tc_result = None

SpecGather == InitGather /\ [][NextGather]_vars

\* the model on every rank: __init__, then one training step; Artanh applied once
InitModel ==
  /\ tokenizer = [pad_token |-> None, eos_token |-> None]
  /\ ds_state = "new"
  /\ append_eos_token = None
  /\ append_token = None
  /\ prepend_query = <<>>
  /\ prepend_passage = <<>>
  /\ sample = <<>>
  /\ text_samples = <<>>
  /\ getitem_result = "none"
  /\ dl_state = "new"
  /\ dl_token_counting_func = None
  /\ col_state = "new"
  /\ split_token_id = None
  /\ bos_mode = FALSE
  /\ col_batch = NoBatch
  /\ call_result = "none"
  /\ p_hidden = <<>>
  /\ p_mask = <<>>
  /\ p_out = None
  /\ g_world = 1
  /\ g_arg = [r \in Ranks(1) |-> None]
  /\ g_pc = [r \in Ranks(1) |-> "start"]
  /\ g_buf = [r \in Ranks(1) |-> None]
  /\ g_out = [r \in Ranks(1) |-> None]
  /\ m_world \in 1..MaxWorld
  /\ m_cfg = NoConfig
  /\ m_state = "new"
  /\ \E seed \in Seeds, d1 \in 1..MaxSamples, d2 \in TextCounts,
        optional_keys \in OptionalKeySets :
       m_batch = [r \in Ranks(m_world) |->
                    BatchOf(seed, r, d1, d2, optional_keys)]
  /\ m_pc = [r \in Ranks(m_world) |-> "batch"]
  /\ m_dims = [r \in Ranks(m_world) |-> None]
  /\ m_calls = [r \in Ranks(m_world) |-> <<>>]
  /\ m_outputs = [r \in Ranks(m_world) |-> None]
  /\ m_method = None
  /\ m_local = [r \in Ranks(m_world) |-> None]
  /\ m_result = [r \in Ranks(m_world) |-> None]
  /\ artanh_ctx = None
  /\ artanh_res = None
  /\ artanh_grad = None
  /\ pj_x = <<0, 0>>
  /\ pj_sqrt_c = <<1, 1>>
  /\ pj_out = None
  /\ pj_pair = None
  /\ tc_state = "new"
  /\ tc_pad_token_id = 0
  /\ tc_decoder_only = TRUE
  /\ tc_batch = None
  /\ tc_result = None

SpecModel == InitModel /\ [][NextModel]_vars

\* the model on one rank, where the batch's queries and the gathered passages
\* are as many and loss() gets to its distances, with Artanh applied and
\* differentiated at any time
InitDistance ==
  /\ tokenizer = [pad_token |-> None, eos_token |-> None]
  /\ ds_state = "new"
  /\ append_eos_token = None
  /\ append_token = None
  /\ prepend_query = <<>>
  /\ prepend_passage = <<>>
  /\ sample = <<>>
  /\ text_samples = <<>>
  /\ getitem_result = "none"
  /\ dl_state = "new"
  /\ dl_token_counting_func = None
  /\ col_state = "new"
  /\ split_token_id = None
  /\ bos_mode = FALSE
  /\ col_batch = NoBatch
  /\ call_result = "none"
  /\ p_hidden = <<>>
  /\ p_mask = <<>>
  /\ p_out = None
  /\ g_world = 1
  /\ g_arg = [r \in Ranks(1) |-> None]
  /\ g_pc = [r \in Ranks(1) |-> "start"]
  /\ g_buf = [r \in Ranks(1) |-> None]
  /\ g_out = [r \in Ranks(1) |-> None]
  /\ m_world = 1
  /\ m_cfg = NoConfig
  /\ m_state = "new"
  /\ \E seed \in Seeds, d1 \in 1..MaxSamples, d2 \in TextCounts,
        optional_keys \in OptionalKeySets :
       m_batch = [r \in Ranks(m_world) |->
                    BatchOf(seed, r, d1, d2, optional_keys)]
  /\ m_pc = [r \in Ranks(m_world) |-> "batch"]
  /\ m_dims = [r \in Ranks(m_world) |-> None]
  /\ m_calls = [r \in Ranks(m_world) |-> <<>>]
  /\ m_outputs = [r \in Ranks(m_world) |-> None]
  /\ m_method = None
  /\ m_local = [r \in Ranks(m_world) |-> None]
  /\ m_result = [r \in Ranks(m_world) |-> None]
  /\ artanh_ctx = None
  /\ artanh_res = None
  /\ artanh_grad = None
  /\ pj_x = <<0, 0>>
  /\ pj_sqrt_c = <<1, 1>>
  /\ pj_out = None
  /\ pj_pair = None
  /\ tc_state = "new"
  /\ tc_pad_token_id = 0
  /\ tc_decoder_only = TRUE
  /\ tc_batch = None
  /\ tc_result = None

SpecDistance == InitDistance /\ [][NextDistance]_vars

\* the token-counting callable: one get_tokens_per_batch_func, one call
InitCount ==
  /\ tokenizer = [pad_token |-> None, eos_token |-> None]
  /\ ds_state = "new"
  /\ append_eos_token = None
  /\ append_token = None
  /\ prepend_query = <<>>
  /\ prepend_passage = <<>>
  /\ sample = <<>>
  /\ text_samples = <<>>
  /\ getitem_result = "none"
  /\ dl_state = "new"
  /\ dl_token_counting_func = None
  /\ col_state = "new"
  /\ split_token_id = None
  /\ bos_mode = FALSE
  /\ col_batch = NoBatch
  /\ call_result = "none"
  /\ p_hidden = <<>>
  /\ p_mask = <<>>
  /\ p_out = None
  /\ g_world = 1
  /\ g_arg = [r \in Ranks(1) |-> None]
  /\ g_pc = [r \in Ranks(1) |-> "start"]
  /\ g_buf = [r \in Ranks(1) |-> None]
  /\ g_out = [r \in Ranks(1) |-> None]
  /\ m_world = 1
  /\ m_cfg = NoConfig
  /\ m_state = "new"
  /\ m_batch = [r \in Ranks(1) |-> <<>>]
  /\ m_pc = [r \in Ranks(1) |-> "batch"]
  /\ m_dims = [r \in Ranks(1) |-> None]
  /\ m_calls = [r \in Ranks(1) |-> <<>>]
  /\ m_outputs = [r \in Ranks(1) |-> None]
  /\ m_method = None
  /\ m_local = [r \in Ranks(1) |-> None]
  /\ m_result = [r \in Ranks(1) |-> None]
  /\ artanh_ctx = None
  /\ artanh_res = None
  /\ artanh_grad = None
  /\ pj_x = <<0, 0>>
  /\ pj_sqrt_c = <<1, 1>>
  /\ pj_out = None
  /\ pj_pair = None
  /\ tc_state = "new"
  /\ tc_pad_token_id = 0
  /\ tc_decoder_only = TRUE
  /\ tc_batch = None
  /\ tc_result = None

SpecCount == InitCount /\ [][NextCount]_vars

\* the projection: one project call of any curvature, one poincare_distance
InitProject ==
  /\ tokenizer = [pad_token |-> None, eos_token |-> None]
  /\ ds_state = "new"
  /\ append_eos_token = None
  /\ append_token = None
  /\ prepend_query = <<>>
  /\ prepend_passage = <<>>
  /\ sample = <<>>
  /\ text_samples = <<>>
  /\ getitem_result = "none"
  /\ dl_state = "new"
  /\ dl_token_counting_func = None
  /\ col_state = "new"
  /\ split_token_id = None
  /\ bos_mode = FALSE
  /\ col_batch = NoBatch
  /\ call_result = "none"
  /\ p_hidden = <<>>
  /\ p_mask = <<>>
  /\ p_out = None
  /\ g_world = 1
  /\ g_arg = [r \in Ranks(1) |-> None]
  /\ g_pc = [r \in Ranks(1) |-> "start"]
  /\ g_buf = [r \in Ranks(1) |-> None]
  /\ g_out = [r \in Ranks(1) |-> None]
  /\ m_world = 1
  /\ m_cfg = NoConfig
  /\ m_state = "new"
  /\ m_batch = [r \in Ranks(1) |-> <<>>]
  /\ m_pc = [r \in Ranks(1) |-> "batch"]
  /\ m_dims = [r \in Ranks(1) |-> None]
  /\ m_calls = [r \in Ranks(1) |-> <<>>]
  /\ m_outputs = [r \in Ranks(1) |-> None]
  /\ m_method = None
  /\ m_local = [r \in Ranks(1) |-> None]
  /\ m_result = [r \in Ranks(1) |-> None]
  /\ artanh_ctx = None
  /\ artanh_res = None
  /\ artanh_grad = None
  /\ pj_x = <<0, 0>>
  /\ pj_sqrt_c = <<1, 1>>
  /\ pj_out = None
  /\ pj_pair = None
  /\ tc_state = "new"
  /\ tc_pad_token_id = 0
  /\ tc_decoder_only = TRUE
  /\ tc_batch = None
  /\ tc_result = None

SpecProject == InitProject /\ [][NextProject]_vars

----------------------------------------------------------------------------
\* Properties of the model (SpecModel, SpecDistance)

\* the pooled rows all_gather hands back on rank r
AllQ(r) == GatherResult([i \in Ranks(m_world) |-> Get(m_local[i]).q],
                        r, Get(m_local[r]).q, m_world)

AllP(r) == GatherResult([i \in Ranks(m_world) |-> Get(m_local[i]).p],
                        r, Get(m_local[r]).p, m_world)

RanMethod(r, method) == m_pc[r] = "done" /\ m_method = Some(method)

\* C1: every forward pass invokes the backbone twice, first on the query
\* rows of the batch and then, separately, on its passage rows.
C1_BackboneTwice ==
  \A r \in Ranks(m_world) :
    m_pc[r] # "batch" =>
      LET ids == m_batch[r]["input_ids"]
          s == StepSize(m_cfg)
      IN  /\ Len(m_calls[r]) = 2
          /\ m_calls[r][1].input_ids = Select(ids, QueryIndex(Len(ids), s))
          /\ m_calls[r][2].input_ids = Select(ids, PassageIndex(Len(ids), s))

\* the configurations __init__ accepts
BuiltConfigs == {cfg \in ModelConfigs : LossFnOutcome(cfg) = "built"}

\* C2: loss() computes either the InfoNCE loss or the Poincare-ball loss,
\* and each of the two is what loss() computes under some configuration.
C2_BothLossesReachable ==
  \A r \in Ranks(m_world) :
    RanMethod(r, "loss") =>
      /\ Get(m_result[r]).kind \in {"infonce", "poincare"}
      /\ \A kind \in {"infonce", "poincare"} :
           \E cfg \in BuiltConfigs :
             Loss(cfg, Get(m_local[r]).q, AllP(r)).kind = kind

\* the row of the positive passage of the sample a query row opens
PositiveOf(query_id) == <<query_id[1], query_id[2] + 1>>

\* C3: with pos_step_size equal to the number of texts per sample, for
\* every query i of the gathered batch labels[i] is the column of the
\* passage of the same sample (its positive), scores[i][j] is the inner
\* product of query i and passage j, and every other column is a negative.
C3_LabelsMarkPositives ==
  \A r \in Ranks(m_world) :
    (RanMethod(r, "_compute_scores") /\ StepSize(m_cfg) = Get(m_dims[r])[2]) =>
      LET res == Get(m_result[r])
          all_q == AllQ(r)
          all_p == AllP(r)
      IN  \A i \in 1..Len(all_q) :
            /\ i <= Len(res.labels)
            /\ res.labels[i] + 1 \in 1..Len(all_p)
            /\ all_p[res.labels[i] + 1].id = PositiveOf(all_q[i].id)
            /\ \A j \in 1..Len(all_p) :
                 /\ res.scores[i][j].q = all_q[i].id
                 /\ res.scores[i][j].p = all_p[j].id
                 /\ j # res.labels[i] + 1 => all_p[j].id # PositiveOf(all_q[i].id)

----------------------------------------------------------------------------
\* Properties of masked mean pooling (SpecPool)

\* the positions of row r the attention mask attends to
Attended(r) == {k \in 1..Len(p_mask[r]) : p_mask[r][k] = 1}

RECURSIVE SumOver(_, _, _)
\* the sum of component h of the hidden states of row r over the positions K
SumOver(K, r, h) ==
  IF K = {} THEN 0
  ELSE LET k == CHOOSE x \in K : TRUE
       IN  p_hidden[r][k][h] + SumOver(K \ {k}, r, h)

\* the tensors that differ from p_hidden at most where the mask is 0
SameWhereAttended ==
  {other \in Tensors3D(Len(p_hidden), Len(p_hidden[1]), Len(p_hidden[1][1]),
                       0..MaxHidden) :
     \A r \in 1..Len(p_hidden) : \A k \in Attended(r) :
       other[r][k] = p_hidden[r][k]}

\* C4: for every row with an attended position the pooled embedding is the
\* sum of the hidden states at the positions whose mask is 1, divided by
\* the number of those positions; hidden states at masked positions do not
\* change it.
C4_MaskedMeanPooling ==
  ~IsNone(p_out) =>
    \A r \in 1..Len(p_hidden) :
      Attended(r) # {} =>
        /\ Get(p_out)[r].cnt = Cardinality(Attended(r))
        /\ \A h \in 1..Len(p_hidden[1][1]) :
             Get(p_out)[r].sum[h] = SumOver(Attended(r), r, h)
        /\ \A other \in SameWhereAttended :
             MaskedMeanPool(other, p_mask, Len(p_hidden[1][1]))[r] = Get(p_out)[r]

\* a row is pooled that attends to one position and masks a non-zero one
C4_Witness ==
  /\ ~IsNone(p_out)
  /\ \E r \in 1..Len(p_hidden) :
       /\ Cardinality(Attended(r)) = 1
       /\ \E k \in 1..Len(p_mask[r]) :
            p_mask[r][k] = 0 /\ p_hidden[r][k][1] # 0
       /\ \E k \in Attended(r) : p_hidden[r][k][1] # 0

----------------------------------------------------------------------------
\* Properties of dist_gather_tensor (SpecGather)

AllPassTensors == \A i \in Ranks(g_world) : ~IsNone(g_arg[i])

\* C5: when every rank passes a tensor of n rows each rank receives the
\* W * n rows t_0, ..., t_(W-1) in rank order, its own block being its own
\* tensor; a rank that passes None gets None back and joins no collective.
C5_RankOrderedAllGather ==
  \A r \in Ranks(g_world) :
    g_pc[r] = "returned" =>
      IF IsNone(g_arg[r])
      THEN IsNone(g_out[r]) /\ IsNone(g_buf[r])
      ELSE AllPassTensors =>
             LET n == Len(Get(g_arg[r]))
                 out == Get(g_out[r])
             IN  /\ Len(out) = g_world * n
                 /\ \A i \in Ranks(g_world) : \A k \in 1..n :
                      out[i * n + k] = Get(g_arg[i])[k]
                 /\ SubSeq(out, r * n + 1, r * n + n) = Get(g_arg[r])

\* two ranks that passed different tensors have both returned
C5_Witness ==
  /\ g_world = 2
  /\ AllPassTensors
  /\ \A r \in Ranks(g_world) : g_pc[r] = "returned"
  /\ Len(Get(g_arg[0])) = 2
  /\ Get(g_arg[0]) # Get(g_arg[1])

----------------------------------------------------------------------------
\* Properties of the dataset (SpecData)

\* the names of the columns the loop of __getitem__ takes for text columns
TextLikeNames(smp) ==
  LET names == [i \in 1..Len(smp) |-> smp[i].name]
      IsTextLike(n) == StartsWith(n, COL_TEXT_A) \/ StartsWith(n, COL_TEXT_B)
  IN  SelectSeq(names, IsTextLike)

\* append_eos_token is set
EosRequested == ~IsNone(append_eos_token) /\ Get(append_eos_token)

\* the token the claims expect appended: eos when requested, else ''
\* (asked of a tokenizer that has an eos token)
ExpectedAppend == IF EosRequested THEN Get(tokenizer.eos_token) ELSE <<>>

AppendDefined == EosRequested => ~IsNone(tokenizer.eos_token)

ExpectedPair ==
  <<prepend_query \o Lookup(sample, COL_TEXT_A) \o ExpectedAppend,
    prepend_passage \o Lookup(sample, COL_TEXT_B) \o ExpectedAppend>>

\* C7 as claimed: for every sample with a text_a and a text_b column the
\* tokenizer is handed exactly [prepend_query + text_a + append_token,
\* prepend_passage + text_b + append_token], query first.
C7_PairForEverySample ==
  (/\ getitem_result = "tokens"
   /\ HasKey(sample, COL_TEXT_A)
   /\ HasKey(sample, COL_TEXT_B)
   /\ AppendDefined)
  => text_samples = ExpectedPair

\* C7 as amended: the same, for every sample whose columns with a name
\* starting with text_a or text_b are exactly text_a followed by text_b.
C7_PairWhenColumnsInOrder ==
  (/\ getitem_result = "tokens"
   /\ TextLikeNames(sample) = <<COL_TEXT_A, COL_TEXT_B>>
   /\ AppendDefined)
  => text_samples = ExpectedPair

\* a text_a/text_b sample has been tokenized with both prefixes and eos
C7_Witness ==
  /\ getitem_result = "tokens"
  /\ TextLikeNames(sample) = <<COL_TEXT_A, COL_TEXT_B>>
  /\ EosRequested
  /\ prepend_query # <<>>
  /\ prepend_passage # <<>>
  /\ Lookup(sample, COL_TEXT_A) # <<>>
  /\ Len(text_samples) = 2
  /\ text_samples[1] # text_samples[2]

HardNegativeSample ==
  /\ TextLikeNames(sample) = <<>>
  /\ HasKey(sample, COL_QUERY_TEXT) /\ Truthy(Lookup(sample, COL_QUERY_TEXT))
  /\ HasKey(sample, COL_POSITIVE_PASSAGE) /\ Truthy(Lookup(sample, COL_POSITIVE_PASSAGE))
  /\ HasKey(sample, COL_NEGATIVE_PASSAGES) /\ Truthy(Lookup(sample, COL_NEGATIVE_PASSAGES))

----------------------------------------------------------------------------
\* Properties of the collator wrapper (SpecCollate)

\* the token sequences of a batch: its rows, or the texts of its samples
TokenRows(t, ndim) == IF ndim = 2 THEN t ELSE ConcatAll(t)

\* how many of the first n tokens of a row are the split token
SplitsAmong(row, n) ==
  Cardinality({k \in 1..n : row[k] = Get(split_token_id)})

\* C9: in BOS mode sequence_id has the shape of input_ids and, for every
\* token sequence r and position j, sequence_id[r][j] is the number of
\* positions k <= j of that sequence holding the BOS token.
C9_BosSequenceIds ==
  (call_result # "none" /\ bos_mode) =>
    /\ call_result = "returned"
    /\ LET ids == TokenRows(Get(col_batch.input_ids), col_batch.ndim)
           sid == TokenRows(Get(col_batch.sequence_id), col_batch.ndim)
       IN  /\ Len(sid) = Len(ids)
           /\ \A r \in 1..Len(ids) :
                /\ Len(sid[r]) = Len(ids[r])
                /\ \A j \in 1..Len(ids[r]) : sid[r][j] = SplitsAmong(ids[r], j)

\* C10: in EOS mode, for every token sequence r and position j,
\* sequence_id[r][j] is the number of positions k < j of that sequence
\* holding the EOS token: column 0 is 0 and the ids never decrease and
\* rise by at most 1 along a sequence.
C10_EosSequenceIds ==
  (call_result # "none" /\ ~bos_mode) =>
    /\ call_result = "returned"
    /\ LET ids == TokenRows(Get(col_batch.input_ids), col_batch.ndim)
           sid == TokenRows(Get(col_batch.sequence_id), col_batch.ndim)
       IN  \A r \in 1..Len(ids) :
             /\ sid[r][1] = 0
             /\ \A j \in 1..Len(ids[r]) : sid[r][j] = SplitsAmong(ids[r], j - 1)
             /\ \A j \in 2..Len(ids[r]) :
                  sid[r][j] - sid[r][j - 1] \in {0, 1}

\* C11: constructing the wrapper raises ValueError when eos_token_id and
\* bos_token_id are both None and when both are given; otherwise it is
\* built, the split token is the id that was given and bos_mode is true
\* exactly when eos_token_id is None.
C11_ExactlyOneTokenId ==
  [][\A e, b \in OptionalTokenIds :
       CollatorInit(e, b) =>
         /\ (IsNone(e) /\ IsNone(b)) => col_state' = "ValueError"
         /\ (~IsNone(e) /\ ~IsNone(b)) => col_state' = "ValueError"
         /\ (IsNone(e) /\ ~IsNone(b)) =>
              col_state' = "built" /\ split_token_id' = b /\ bos_mode'
         /\ (~IsNone(e) /\ IsNone(b)) =>
              col_state' = "built" /\ split_token_id' = e /\ ~bos_mode'
         /\ col_state' = "ValueError" =>
              UNCHANGED <<split_token_id, bos_mode>>]_vars

\* a wrapper has been built in BOS mode and has been called
C11_Witness ==
  /\ col_state = "built"
  /\ bos_mode
  /\ split_token_id = Some(MaxTokenId)
  /\ call_result = "returned"

\* C12: constructing the model with a loss_fn other than
\* 'fused_crossentropy' and 'torch_crossentropy' fails with the ValueError
\* that names the two accepted values.
C12_UnknownLossFnValueError ==
  (/\ m_state # "new"
   /\ ~IsNone(m_cfg.loss_fn)
   /\ Get(m_cfg.loss_fn) \notin {"fused_crossentropy", "torch_crossentropy"})
  => m_state = "ValueError"

\* the configuration names a local directory that exists, with remote None
\* or equal to local, and the directory has no entry named split
LocalDirectoryLacksSplit(a) ==
  /\ a.local # None
  /\ a.isdir
  /\ a.remote = None \/ a.remote = a.local
  /\ ~a.has_split

\* C13: __init__ rejects an invalid configuration before the streaming
\* dataset is built: a non-None group_method raises NotImplementedError;
\* otherwise a keyword argument other than append_eos_token, prepend_query
\* and prepend_passage raises ValueError, and so does a local directory
\* without the split; a configuration with none of these is built.
C13_InvalidConfigurationRejected ==
  [][ds_state = "new" =>
       \A a \in InitArgs :
         DatasetInit(a) =>
           /\ a.group_method # None => ds_state' = "NotImplementedError"
           /\ (a.group_method = None /\ a.extra_kwargs > 0) =>
                ds_state' = "ValueError"
           /\ (a.group_method = None /\ LocalDirectoryLacksSplit(a)) =>
                ds_state' = "ValueError"
           /\ ds_state' = "built" <=>
                /\ a.group_method = None
                /\ a.extra_kwargs = 0
                /\ ~LocalDirectoryLacksSplit(a)
           /\ ds_state' # "built" => tokenizer' = tokenizer]_vars

\* a construction has been refused with ValueError and with a prefix set
C13_Witness ==
  /\ ds_state = "ValueError"
  /\ prepend_query # <<>>

----------------------------------------------------------------------------
\* Properties of the token-counting callable (SpecCount)

\* the index tuples of the entries of t that differ from pad_token_id
NonPadEntries(t, pad_token_id) ==
  IF t.ndim = 2
  THEN {<<i, j>> \in (1..Len(t.value)) \X (1..Len(t.value[1])) :
          t.value[i][j] # pad_token_id}
  ELSE {<<i, j, k>> \in (1..Len(t.value)) \X (1..Len(t.value[1]))
                        \X (1..Len(t.value[1][1])) :
          t.value[i][j][k] # pad_token_id}

\* C14: a call that returns gives the number of entries of input_ids that
\* differ from pad_token_id, plus, when decoder_only is False, the number
\* of entries of decoder_input_ids that differ from pad_token_id.
C14_CountsNonPaddingTokens ==
  (tc_result # None /\ Get(tc_result).err = "none") =>
    LET batch == Get(tc_batch)
        in_input == Cardinality(NonPadEntries(Get(batch.input_ids),
                                              tc_pad_token_id))
    IN  Get(Get(tc_result).count) =
          IF tc_decoder_only THEN in_input
          ELSE in_input
               + Cardinality(NonPadEntries(Get(batch.decoder_input_ids),
                                           tc_pad_token_id))

\* an encoder-decoder count with padding and tokens on both sides
C14_Witness ==
  /\ tc_result # None
  /\ Get(tc_result).err = "none"
  /\ ~tc_decoder_only
  /\ LET batch == Get(tc_batch)
     IN  /\ NonPadEntries(Get(batch.decoder_input_ids), tc_pad_token_id) # {}
         /\ Cardinality(NonPadEntries(Get(batch.input_ids), tc_pad_token_id)) = 1
         /\ Get(batch.input_ids).ndim = 3
         /\ Get(Get(tc_result).count) >= 2

\* C15: the call raises ValueError, and returns no count, when the batch is
\* not a mapping or has no input_ids key, and when decoder_only is False
\* and the batch has no decoder_input_ids key; in every other case, a
\* missing decoder_input_ids key with decoder_only True included, it
\* returns a count.
C15_MissingKeysRaiseValueError ==
  tc_result # None =>
    LET batch == Get(tc_batch)
        res == Get(tc_result)
        raises == res.err = "ValueError" /\ res.count = None
        returns == res.err = "none" /\ res.count # None
    IN  /\ ~batch.is_mapping => raises
        /\ batch.input_ids = None => raises
        /\ (~tc_decoder_only /\ batch.decoder_input_ids = None) => raises
        /\ (/\ batch.is_mapping
            /\ batch.input_ids # None
            /\ tc_decoder_only \/ batch.decoder_input_ids # None) => returns

\* an encoder-decoder call without decoder_input_ids has raised
C15_Witness ==
  /\ tc_result # None
  /\ ~tc_decoder_only
  /\ Get(tc_batch).is_mapping
  /\ Get(tc_batch).input_ids # None
  /\ Get(tc_batch).decoder_input_ids = None
  /\ Get(tc_result).err = "ValueError"

----------------------------------------------------------------------------
\* the largest norm project leaves alone, (1 - 1e-3) / sqrt(c), from the
\* square root <<num, den>> of c
BallRadius(sqrt_c) == (99900000 * sqrt_c[2]) \div sqrt_c[1]

\* what a project call did: the vector unchanged when its norm is at most
\* the radius, otherwise a vector of exactly that norm
ProjectedOntoBall(x, sqrt_c, out) ==
  IF Norm2(x) <= BallRadius(sqrt_c)
  THEN out = x
  ELSE Norm2(out) = BallRadius(sqrt_c)

\* what poincare_distance works with: both projections strictly inside the
\* unit ball and every factor of the denominator strictly positive
InsideUnitBall(pair) ==
  /\ ProjectedOntoBall(pair.queries, DefaultSqrtC, pair.hyperbolic_queries)
  /\ ProjectedOntoBall(pair.passages, DefaultSqrtC, pair.hyperbolic_passages)
  /\ Norm2(pair.hyperbolic_queries) < ProjectOne
  /\ Norm2(pair.hyperbolic_passages) < ProjectOne
  /\ \A f \in 1..Len(pair.denominator) : pair.denominator[f] > 0

\* C16 as the specification states it: _project(x, c) returns x unchanged when
\* its norm is at most (1 - 1e-3) / sqrt(c) and otherwise rescales it to
\* exactly that norm, for every curvature c, and the vectors poincare_distance
\* uses after project lie strictly inside the unit ball with a strictly
\* positive denominator.
C16_ProjectAnyCurvature ==
  /\ pj_out # None => ProjectedOntoBall(pj_x, pj_sqrt_c, Get(pj_out))
  /\ pj_pair # None => InsideUnitBall(Get(pj_pair))

\* C16: _project(x, c) returns x unchanged when its norm is at most
\* (1 - 1e-3) / sqrt(c) and otherwise rescales it to exactly that norm,
\* whenever that radius is at least the 1e-5 the norm is clamped to (c = 1 of
\* poincare_distance included); so the queries and passages poincare_distance
\* uses after project have a norm strictly below 1 and the denominator
\* (1 - |q|^2) * (1 - |p|^2) is strictly positive.
C16_ProjectOntoBall ==
  /\ (pj_out # None /\ BallRadius(pj_sqrt_c) >= ProjectMinNorm)
       => ProjectedOntoBall(pj_x, pj_sqrt_c, Get(pj_out))
  /\ pj_pair # None => InsideUnitBall(Get(pj_pair))

\* a query of norm 2 and a passage of norm 1 have been projected for the
\* distance, and both were rescaled
C16_Witness ==
  /\ pj_pair # None
  /\ Norm2(Get(pj_pair).queries) = 2 * ProjectOne
  /\ Norm2(Get(pj_pair).passages) = ProjectOne
  /\ Get(pj_pair).hyperbolic_queries # Get(pj_pair).queries
  /\ Get(pj_pair).hyperbolic_passages # Get(pj_pair).passages

----------------------------------------------------------------------------
\* the sequence q lists exactly the members of S, in ascending order
AscendingListOf(q, S) ==
  /\ Len(q) = Cardinality(S)
  /\ {q[m] : m \in 1..Len(q)} = S
  /\ \A m \in 1..Len(q) : \A k \in 1..Len(q) : m < k => q[m] < q[k]

\* rows 0, s, 2s, ... below n
QueryRows(n, s) == {i \in 0..(n - 1) : i % s = 0}

\* rows below floor(n / s) * s that are no multiple of s
PassageRows(n, s) == {i \in 0..(n - 1) : i < (n \div s) * s /\ i % s # 0}

\* the rows of the flattened batch a formatted side was taken from
RowsOf(pooled) == [m \in 1..Len(pooled) |-> pooled[m].id[2]]

\* a formatted side holds, under every key and in the hidden states, the
\* rows `rows` of the flattened batch and its hidden states
SameRowsEverywhere(formatted, batch, hidden, rows) ==
  /\ \A key \in DOMAIN batch :
       formatted.batch[key] = [m \in 1..Len(rows) |-> batch[key][rows[m] + 1]]
  /\ formatted.hidden = [m \in 1..Len(rows) |-> hidden[rows[m] + 1]]

\* C17: with N rows in the flattened batch and s = pos_step_size (2 when
\* not configured), the queries are exactly rows 0, s, 2s, ... below N in
\* ascending order and the passages exactly the rows i < floor(N / s) * s
\* with i mod s # 0 in ascending order, under every key of the batch and in
\* the hidden states alike; no row is both; and when s divides N every row
\* is one of the two, each query followed by its s - 1 passages.
C17_RowSplit ==
  \A r \in Ranks(m_world) :
    m_local[r] # None =>
      LET s == StepSize(m_cfg)
          batch == m_batch[r]
          hidden == Get(m_outputs[r])
          n == Len(batch["input_ids"])
          q == RowsOf(Get(m_local[r]).q)
          p == RowsOf(Get(m_local[r]).p)
      IN  s >= 2 =>
            /\ AscendingListOf(q, QueryRows(n, s))
            /\ AscendingListOf(p, PassageRows(n, s))
            /\ SameRowsEverywhere(FormatQueriesBatch(batch, hidden, s),
                                  batch, hidden, q)
            /\ SameRowsEverywhere(FormatPassagesBatch(batch, hidden, s),
                                  batch, hidden, p)
            /\ QueryRows(n, s) \cap PassageRows(n, s) = {}
            /\ n % s = 0 =>
                 /\ QueryRows(n, s) \cup PassageRows(n, s) = 0..(n - 1)
                 /\ \A m \in 1..Len(q) : \A k \in 1..(s - 1) :
                      p[(m - 1) * (s - 1) + k] = q[m] + k

\* a rank has split four rows by threes: rows 0 and 3 are queries, rows 1
\* and 2 passages, and the query of row 3 has no passage
C17_Witness ==
  \E r \in Ranks(m_world) :
    /\ m_local[r] # None
    /\ StepSize(m_cfg) = 3
    /\ RowsOf(Get(m_local[r]).q) = <<0, 3>>
    /\ RowsOf(Get(m_local[r]).p) = <<1, 2>>

----------------------------------------------------------------------------
\* the keys of a batch the specification names as flattened
FlattenedKeys == {"input_ids", "attention_mask", "prefix_mask", "sequence_id",
                  "labels"}

\* t is the (d1, d2, d3) tensor `before` flattened to (d1 * d2, d3): text j
\* of sample i is row i * d2 + j
FlattenedFrom(t, before, d1, d2, d3) ==
  /\ Len(t) = d1 * d2
  /\ \A m \in 1..Len(t) : Len(t[m]) = d3
  /\ \A i \in 0..(d1 - 1) : \A j \in 0..(d2 - 1) :
       t[i * d2 + j + 1] = before[i + 1][j + 1]

\* C18: forward flattens the pairs in place.  For input_ids of shape
\* (d1, d2, d3) the batch afterwards holds input_ids of shape (d1 * d2, d3)
\* with text j of sample i at row i * d2 + j, and attention_mask,
\* prefix_mask, sequence_id and labels, when present, reshaped the same
\* way: the texts of a sample are adjacent rows and the reshaped tensors
\* have one shape.
C18_ForwardFlattensInPlace ==
  [][\A r \in Ranks(m_world) :
       Forward(r) =>
         LET before == m_batch[r]
             after == m_batch'[r]
             d1 == Len(before["input_ids"])
             d2 == Len(before["input_ids"][1])
             d3 == Len(before["input_ids"][1][1])
         IN  /\ DOMAIN after = DOMAIN before
             /\ m_dims'[r] = Some(<<d1, d2, d3>>)
             /\ \A key \in FlattenedKeys \cap DOMAIN before :
                  FlattenedFrom(after[key], before[key], d1, d2, d3)]_vars

\* forward has flattened a batch of two samples of three texts that holds a
\* prefix_mask: six rows under every key
C18_Witness ==
  \E r \in Ranks(m_world) :
    /\ m_dims[r] = Some(<<2, 3, ModelSeqLen>>)
    /\ "prefix_mask" \in DOMAIN m_batch[r]
    /\ \A key \in DOMAIN m_batch[r] : Len(m_batch[r][key]) = 6

----------------------------------------------------------------------------
\* the construction of the dataset has just succeeded
Constructed == ds_state = "new" /\ ds_state' = "built"

\* C19: pad-token fallback.  A dataset constructed with a tokenizer that
\* has an eos token leaves the tokenizer with a pad token: the eos token if
\* it had none, its own pad token otherwise; nothing overwrites a pad
\* token afterwards.  So with an eos token _tokenize does not raise the
\* missing-pad-token RuntimeError and a build_pairs_dataloader that returns
\* has installed a token counting function; the RuntimeError takes a
\* tokenizer with neither a pad token nor an eos token.
C19_PadTokenFallback ==
  /\ [][(Constructed /\ ~IsNone(tokenizer.eos_token)) =>
          /\ tokenizer'.eos_token = tokenizer.eos_token
          /\ tokenizer'.pad_token =
               IF IsNone(tokenizer.pad_token) THEN tokenizer.eos_token
               ELSE tokenizer.pad_token]_vars
  /\ [][~IsNone(tokenizer.pad_token) => tokenizer' = tokenizer]_vars
  /\ [](ds_state = "built" /\ ~IsNone(tokenizer.eos_token)
          => /\ ~IsNone(tokenizer.pad_token)
             /\ getitem_result # "RuntimeError"
             /\ dl_state = "returned" => ~IsNone(dl_token_counting_func))
  /\ [](getitem_result = "RuntimeError"
          => IsNone(tokenizer.pad_token) /\ IsNone(tokenizer.eos_token))

\* a tokenizer without a pad token came out of build_pairs_dataloader with
\* its eos token as pad token and a counting function on it, and a sample
\* has been tokenized
C19_Witness ==
  /\ dl_state = "returned"
  /\ tokenizer.pad_token = tokenizer.eos_token
  /\ dl_token_counting_func = tokenizer.eos_token
  /\ ~IsNone(dl_token_counting_func)
  /\ getitem_result = "tokens"

----------------------------------------------------------------------------
\* C20: in poincare_contrastive_loss, for every world size, rank and local
\* batch size, the distance vector and the label vector have equal length,
\* the entry labelled 1 is the distance between a query and its own matched
\* passage, and every entry labelled 0 is the distance between a query and
\* a passage that is not its matched passage (pos_step_size being the number
\* of texts per sample).
C20_LabelsMatchDistances ==
  \A r \in Ranks(m_world) :
    (RanMethod(r, "loss") /\ StepSize(m_cfg) = Get(m_dims[r])[2]) =>
      LET res == Get(m_result[r])
      IN  /\ res.err = "none"
          /\ Len(res.distances) = Len(res.labels)
          /\ \A m \in 1..Len(res.labels) :
               (res.labels[m] = 1) <=>
                 (res.distances[m].p = PositiveOf(res.distances[m].q))

====
